---- MODULE Spec2Model ----
(***************************************************************************)
(* Hardware-acceleration negotiation of cap_ffmpeg_hw.hpp: configuration   *)
(* resolver, candidate iterator (HWAccelIterator), device context builder  *)
(* (hw_create_device) and codec selector (hw_find_codec).                  *)
(*                                                                         *)
(* std::string values are sequences of one-character strings; dictionary   *)
(* keys are TLA+ strings built by concatenation as the code builds them.   *)
(***************************************************************************)
EXTENDS Integers, Sequences, FiniteSets, TLC

VARIABLES
    \* inputs of HWAccelIterator::HWAccelIterator and the build platform
    va_type, isEncoder, dict, win32,
    \* the local accel_list of the constructor, kept for inspection
    accel_list,
    \* members of HWAccelIterator
    s_stream_, hw_type_device_string_, hw_type_string_, hw_type_,
    device_subname_, disabled_codecs_,
    \* the candidates handed to the caller by parse_next(), in order
    yielded,
    \* hw_create_device: where the call stands, its arguments and locals
    pc, hw_type, hw_device, device_subname, child_types, stage,
    hw_device_ctx, derived_ctx,
    \* the context the last call returned (0 is NULL), held by the caller
    result,
    \* the library's reference-counted device contexts, by handle 1, 2, ...
    heap,
    \* the calls of av_hwdevice_ctx_create made so far, and of hw_create_device
    lib_calls, attempts,
    \* the codecs the library enumerates, in its order, and the build's
    \* LIBAVUTIL_BUILD < AV_VERSION_INT(56, 51, 100)
    codecs, old_libavutil,
    \* the last call of hw_find_codec / hw_check_codec: its arguments, the
    \* caller's *hw_pix_fmt slot and the value returned
    last_call, hw_pix_fmt, ret,
    \* the library's reference-counted frame pools, by handle 1, 2, ...
    pools,
    \* hw_create_frames: where the call stands, its arguments and locals, and
    \* the pool it returned (0 is NULL)
    fr,
    \* hw_get_format_callback: where the call stands, the offered formats, its
    \* loop indexes and the format it returned
    cb,
    \* the codec context the callback is given
    cctx

iterVars == <<va_type, isEncoder, dict, win32, accel_list, s_stream_,
              hw_type_device_string_, hw_type_string_, hw_type_,
              device_subname_, disabled_codecs_, yielded>>

devVars == <<pc, hw_type, hw_device, device_subname, child_types, stage,
             hw_device_ctx, derived_ctx, result, heap, lib_calls, attempts>>

codecVars == <<codecs, old_libavutil, last_call, hw_pix_fmt, ret>>

frameVars == <<pools, fr, cb, cctx>>

vars == <<iterVars, devVars, codecVars, frameVars>>

----------------------------------------------------------------------------
(* Bounds *)

\* longest override value of the iterator specification, in pieces
MaxPieces == 4

\* most codecs the library enumerates in the codec specification
MaxCodecs == 2

----------------------------------------------------------------------------
(* Character strings *)

\* the null pointer, among handles 1, 2, ...
NULL == 0

EmptyStr == <<>>
Comma == <<",">>
Dot == <<".">>

S_vaapi == <<"v", "a", "a", "p", "i">>
S_qsv == <<"q", "s", "v">>
S_d3d11va == <<"d", "3", "d", "1", "1", "v", "a">>
S_dxva2 == <<"d", "x", "v", "a", "2">>
S_cuda == <<"c", "u", "d", "a">>
S_iHD == <<"i", "H", "D">>
S_x == <<"x">>

\* std::string::find(ch): 1-based index of the first ch, 0 for npos
RECURSIVE FindFrom(_, _, _)
FindFrom(s, ch, i) ==
    IF i > Len(s) THEN 0
    ELSE IF s[i] = ch THEN i
    ELSE FindFrom(s, ch, i + 1)

find(s, ch) == FindFrom(s, ch, 1)

\* std::string::substr(pos) and substr(0, n), pos 1-based here
substr_from(s, pos) == SubSeq(s, pos, Len(s))
substr_to(s, n) == SubSeq(s, 1, n)

----------------------------------------------------------------------------
(* enum VideoAccelerationType *)

VIDEO_ACCELERATION_NONE == 0
VIDEO_ACCELERATION_ANY == 1
VIDEO_ACCELERATION_D3D11 == 2
VIDEO_ACCELERATION_VAAPI == 3
VIDEO_ACCELERATION_MFX == 4

VideoAccelerationType ==
    {VIDEO_ACCELERATION_NONE, VIDEO_ACCELERATION_ANY, VIDEO_ACCELERATION_D3D11,
     VIDEO_ACCELERATION_VAAPI, VIDEO_ACCELERATION_MFX}

getVideoAccelerationName(va) ==
    CASE va = VIDEO_ACCELERATION_NONE -> "none"
      [] va = VIDEO_ACCELERATION_ANY -> "any"
      [] va = VIDEO_ACCELERATION_D3D11 -> "d3d11"
      [] va = VIDEO_ACCELERATION_VAAPI -> "vaapi"
      [] va = VIDEO_ACCELERATION_MFX -> "mfx"
      [] OTHER -> "unknown"

----------------------------------------------------------------------------
(* AVHWDeviceType and the library's table of registered device-type names *)

AV_HWDEVICE_TYPE_NONE == "none"
AV_HWDEVICE_TYPE_CUDA == "cuda"
AV_HWDEVICE_TYPE_VAAPI == "vaapi"
AV_HWDEVICE_TYPE_DXVA2 == "dxva2"
AV_HWDEVICE_TYPE_QSV == "qsv"
AV_HWDEVICE_TYPE_D3D11VA == "d3d11va"

HWDeviceTypes ==
    {AV_HWDEVICE_TYPE_CUDA, AV_HWDEVICE_TYPE_VAAPI, AV_HWDEVICE_TYPE_DXVA2,
     AV_HWDEVICE_TYPE_QSV, AV_HWDEVICE_TYPE_D3D11VA}

\* av_hwdevice_get_type_name: the registered name of a device type
av_hwdevice_get_type_name(t) ==
    CASE t = AV_HWDEVICE_TYPE_CUDA -> S_cuda
      [] t = AV_HWDEVICE_TYPE_VAAPI -> S_vaapi
      [] t = AV_HWDEVICE_TYPE_DXVA2 -> S_dxva2
      [] t = AV_HWDEVICE_TYPE_QSV -> S_qsv
      [] t = AV_HWDEVICE_TYPE_D3D11VA -> S_d3d11va

\* av_hwdevice_find_type_by_name: exact, case-sensitive lookup; NONE when the
\* name is not registered
av_hwdevice_find_type_by_name(name) ==
    IF \E t \in HWDeviceTypes : av_hwdevice_get_type_name(t) = name
    THEN CHOOSE t \in HWDeviceTypes : av_hwdevice_get_type_name(t) = name
    ELSE AV_HWDEVICE_TYPE_NONE

----------------------------------------------------------------------------
(* AVDictionary *)

\* a dictionary pointer: null, or a finite map from keys to values
NullDict == [null |-> TRUE, entries |-> <<>>]

\* av_dict_get(dict, key, NULL, 0): the entry stored under key, if any
av_dict_get(d, key) ==
    IF key \in DOMAIN d.entries
    THEN [found |-> TRUE, value |-> d.entries[key]]
    ELSE [found |-> FALSE, value |-> EmptyStr]

\* the lookup with an empty value treated as a missing entry
LookupValue_EmptyIsAbsent(d, key_name) ==
    IF ~d.null /\ av_dict_get(d, key_name).found
              /\ av_dict_get(d, key_name).value # EmptyStr
    THEN [null |-> FALSE, value |-> av_dict_get(d, key_name).value]
    ELSE [null |-> TRUE, value |-> EmptyStr]

\* the value pointer the four lookup functions share:
\*   if (dict) { entry = av_dict_get(...); if (entry) p = entry->value; }
LookupValue(d, key_name) ==
    IF ~d.null /\ av_dict_get(d, key_name).found
    THEN [null |-> FALSE, value |-> av_dict_get(d, key_name).value]
    ELSE [null |-> TRUE, value |-> EmptyStr]

----------------------------------------------------------------------------
(* Configuration resolver *)

\* FFMPEG_DECODE_ACCELERATION_TYPES defaults
DecoderDefault(va, win) ==
    IF win
    THEN CASE va = VIDEO_ACCELERATION_NONE -> EmptyStr
           [] va = VIDEO_ACCELERATION_ANY -> S_d3d11va
           [] va = VIDEO_ACCELERATION_D3D11 -> S_d3d11va
           [] va = VIDEO_ACCELERATION_VAAPI -> EmptyStr
           [] va = VIDEO_ACCELERATION_MFX -> EmptyStr
           [] OTHER -> EmptyStr
    ELSE CASE va = VIDEO_ACCELERATION_NONE -> EmptyStr
           [] va = VIDEO_ACCELERATION_ANY -> S_vaapi \o Dot \o S_iHD
           [] va = VIDEO_ACCELERATION_D3D11 -> EmptyStr
           [] va = VIDEO_ACCELERATION_VAAPI -> S_vaapi \o Dot \o S_iHD
           [] va = VIDEO_ACCELERATION_MFX -> S_qsv \o Dot \o S_iHD
           [] OTHER -> EmptyStr

\* FFMPEG_ENCODE_ACCELERATION_TYPES defaults
EncoderDefault(va, win) ==
    IF win
    THEN CASE va = VIDEO_ACCELERATION_NONE -> EmptyStr
           [] va = VIDEO_ACCELERATION_ANY -> S_qsv
           [] va = VIDEO_ACCELERATION_D3D11 -> EmptyStr
           [] va = VIDEO_ACCELERATION_VAAPI -> EmptyStr
           [] va = VIDEO_ACCELERATION_MFX -> S_qsv
           [] OTHER -> EmptyStr
    ELSE CASE va = VIDEO_ACCELERATION_NONE -> EmptyStr
           [] va = VIDEO_ACCELERATION_ANY ->
                S_qsv \o Dot \o S_iHD \o Comma \o S_vaapi \o Dot \o S_iHD
           [] va = VIDEO_ACCELERATION_D3D11 -> EmptyStr
           [] va = VIDEO_ACCELERATION_VAAPI -> S_vaapi \o Dot \o S_iHD
           [] va = VIDEO_ACCELERATION_MFX -> S_qsv \o Dot \o S_iHD
           [] OTHER -> <<"u", "n", "k", "n", "o", "w", "n">>

getDecoderConfiguration(va, d, win) ==
    LET key_name == "hw_decoders_" \o getVideoAccelerationName(va)
        hw_acceleration == LookupValue(d, key_name)
    IN  IF ~hw_acceleration.null
        THEN hw_acceleration.value
        ELSE DecoderDefault(va, win)

getEncoderConfiguration(va, d, win) ==
    LET key_name == "hw_encoders_" \o getVideoAccelerationName(va)
        hw_acceleration == LookupValue(d, key_name)
    IN  IF ~hw_acceleration.null
        THEN hw_acceleration.value
        ELSE EncoderDefault(va, win)

\* FFMPEG_DECODE_DISABLE_CODECS defaults
DecoderDisabledDefault(win) ==
    IF win
    THEN <<"n", "o", "n", "e">>
    ELSE <<"a", "v", "1", ".", "v", "a", "a", "p", "i", ",",
           "a", "v", "1", "_", "q", "s", "v", ",",
           "v", "p", "8", ".", "v", "a", "a", "p", "i", ",",
           "v", "p", "8", "_", "q", "s", "v">>

\* FFMPEG_ENCODE_DISABLE_CODECS defaults
EncoderDisabledDefault(win) ==
    IF win
    THEN <<"m", "j", "p", "e", "g", "_", "q", "s", "v">>
    ELSE <<"m", "j", "p", "e", "g", "_", "v", "a", "a", "p", "i", ",",
           "m", "j", "p", "e", "g", "_", "q", "s", "v", ",",
           "v", "p", "8", "_", "v", "a", "a", "p", "i">>

getDecoderDisabledCodecs(d, win) ==
    LET disabled_codecs == LookupValue(d, "hw_disable_decoders")
    IN  IF ~disabled_codecs.null
        THEN disabled_codecs.value
        ELSE DecoderDisabledDefault(win)

getEncoderDisabledCodecs(d, win) ==
    LET disabled_codecs == LookupValue(d, "hw_disabled_encoders")
    IN  IF ~disabled_codecs.null
        THEN disabled_codecs.value
        ELSE EncoderDisabledDefault(win)

----------------------------------------------------------------------------
(* std::istringstream *)

\* a stream over buf; pos is the 1-based index of the next unread character
istringstream(str) ==
    [buf |-> str, pos |-> 1, eofbit |-> FALSE, failbit |-> FALSE]

\* std::ios::good(): no state bit is set
stream_good(s) == ~s.eofbit /\ ~s.failbit

\* s_stream_ >> tmp on a stream with nothing but end of input to read: the
\* sentry meets end of input, nothing is extracted: eofbit and failbit
ExtractWordAtEnd(s) ==
    [s EXCEPT !.eofbit = TRUE, !.failbit = TRUE]

\* getline that reports end of input as soon as the delimiter it extracted
\* was the last character
getline_EagerEof(s, old, delim) ==
    IF ~stream_good(s)
    THEN [stream |-> [s EXCEPT !.failbit = TRUE], str |-> old]
    ELSE LET k == FindFrom(s.buf, delim, s.pos)
         IN  IF k # 0
             THEN [stream |-> [s EXCEPT !.pos = k + 1,
                                        !.eofbit = (k = Len(s.buf))],
                   str |-> SubSeq(s.buf, s.pos, k - 1)]
             ELSE [stream |-> [s EXCEPT !.pos = Len(s.buf) + 1,
                                        !.eofbit = TRUE,
                                        !.failbit = (s.pos > Len(s.buf))],
                   str |-> SubSeq(s.buf, s.pos, Len(s.buf))]

\* std::getline(stream, str, delim): [stream, str] afterwards.  A stream that
\* is not good fails the sentry: failbit, str untouched.  Otherwise str is
\* erased and filled up to the delimiter (extracted, not stored) or to end of
\* input (eofbit; failbit too when nothing was extracted).
getline(s, old, delim) ==
    IF ~stream_good(s)
    THEN [stream |-> [s EXCEPT !.failbit = TRUE], str |-> old]
    ELSE LET k == FindFrom(s.buf, delim, s.pos)
         IN  IF k # 0
             THEN [stream |-> [s EXCEPT !.pos = k + 1],
                   str |-> SubSeq(s.buf, s.pos, k - 1)]
             ELSE [stream |-> [s EXCEPT !.pos = Len(s.buf) + 1,
                                        !.eofbit = TRUE,
                                        !.failbit = (s.pos > Len(s.buf))],
                   str |-> SubSeq(s.buf, s.pos, Len(s.buf))]

----------------------------------------------------------------------------
(* class HWAccelIterator *)

\* updateAccelList_: the accel_list afterwards
updateAccelList_(list, va, enc, d, win) ==
    LET new_accels == IF enc
                      THEN getEncoderConfiguration(va, d, win)
                      ELSE getDecoderConfiguration(va, d, win)
    IN  IF new_accels = EmptyStr THEN list
        ELSE IF list = EmptyStr THEN new_accels
        ELSE list \o Comma \o new_accels

\* BuildAccelList with the ',' added for ANY whatever the list holds
BuildAccelList_AlwaysComma(va, enc, d, win) ==
    LET l1 == IF va # VIDEO_ACCELERATION_NONE
              THEN updateAccelList_(EmptyStr, va, enc, d, win)
              ELSE EmptyStr
    IN  IF va = VIDEO_ACCELERATION_ANY THEN l1 \o Comma ELSE l1

\* BuildAccelList with no software entry added for ANY
BuildAccelList_NoFallback(va, enc, d, win) ==
    IF va # VIDEO_ACCELERATION_NONE
    THEN updateAccelList_(EmptyStr, va, enc, d, win)
    ELSE EmptyStr

\* BuildAccelList resolving the configuration for NONE as well
BuildAccelList_NoNoneGuard(va, enc, d, win) ==
    LET l1 == updateAccelList_(EmptyStr, va, enc, d, win)
    IN  IF va = VIDEO_ACCELERATION_ANY /\ l1 # EmptyStr
        THEN l1 \o Comma
        ELSE l1

\* lines 511-520 of the constructor: the local accel_list
BuildAccelList(va, enc, d, win) ==
    LET l1 == IF va # VIDEO_ACCELERATION_NONE
              THEN updateAccelList_(EmptyStr, va, enc, d, win)
              ELSE EmptyStr
    IN  IF va = VIDEO_ACCELERATION_ANY /\ l1 # EmptyStr
        THEN l1 \o Comma
        ELSE l1

\* BuildStream that always opens the stream over accel_list
BuildStream_NeverBroken(list, va) == istringstream(list)

\* lines 523-532: the stream member, default-constructed and then either
\* broken by a failed extraction or replaced by a stream over accel_list
BuildStream(list, va) ==
    IF list = EmptyStr /\ va # VIDEO_ACCELERATION_NONE
                       /\ va # VIDEO_ACCELERATION_ANY
    THEN ExtractWordAtEnd(istringstream(EmptyStr))
    ELSE istringstream(list)

\* lines 534-540: disabled_codecs_ stays empty for VIDEO_ACCELERATION_NONE
BuildDisabledCodecs(va, enc, d, win) ==
    IF va # VIDEO_ACCELERATION_NONE
    THEN IF enc THEN getEncoderDisabledCodecs(d, win)
                ELSE getDecoderDisabledCodecs(d, win)
    ELSE EmptyStr

\* bool good() const
good == stream_good(s_stream_)

\* the state right after HWAccelIterator(va, enc, d) on platform win
Constructed(va, enc, d, win) ==
    /\ va_type = va
    /\ isEncoder = enc
    /\ dict = d
    /\ win32 = win
    /\ accel_list = BuildAccelList(va, enc, d, win)
    /\ s_stream_ = BuildStream(BuildAccelList(va, enc, d, win), va)
    /\ hw_type_device_string_ = EmptyStr
    /\ hw_type_string_ = EmptyStr
    /\ hw_type_ = AV_HWDEVICE_TYPE_NONE
    /\ device_subname_ = EmptyStr
    /\ disabled_codecs_ = BuildDisabledCodecs(va, enc, d, win)
    /\ yielded = <<>>

\* SplitToken without device_subname_.clear() for a token with no '.'
SplitToken_NoClear(tok) ==
    LET index == find(tok, ".")
    IN  IF index # 0
        THEN [device_subname |-> substr_from(tok, index + 1),
              hw_type_string |-> substr_to(tok, index - 1)]
        ELSE [device_subname |-> device_subname_,
              hw_type_string |-> tok]

\* the split of one token at its first '.'
SplitToken(tok) ==
    LET index == find(tok, ".")
    IN  IF index # 0
        THEN [device_subname |-> substr_from(tok, index + 1),
              hw_type_string |-> substr_to(tok, index - 1)]
        ELSE [device_subname |-> EmptyStr,
              hw_type_string |-> tok]

\* ResolveType falling back to a default backend for an unknown name
ResolveType_DefaultBackend(name) ==
    IF av_hwdevice_find_type_by_name(name) = AV_HWDEVICE_TYPE_NONE
    THEN AV_HWDEVICE_TYPE_VAAPI
    ELSE av_hwdevice_find_type_by_name(name)

\* the device type parse_next() stores for a backend name
ResolveType(name) == av_hwdevice_find_type_by_name(name)

\* void parse_next(), called by the negotiation loop while good()
ParseNext ==
    /\ good
    /\ pc \in {"idle", "returned"} /\ result = NULL
    /\ LET g == getline(s_stream_, hw_type_device_string_, ",")
           p == SplitToken(g.str)
       IN  /\ s_stream_' = g.stream
           /\ hw_type_device_string_' = g.str
           /\ device_subname_' = p.device_subname
           /\ hw_type_string_' = p.hw_type_string
           /\ hw_type_' = ResolveType(p.hw_type_string)
           /\ yielded' = Append(yielded,
                                [token |-> g.str,
                                 hw_type_string |-> p.hw_type_string,
                                 hw_type |-> ResolveType(p.hw_type_string),
                                 device_subname |-> p.device_subname])
    /\ UNCHANGED <<va_type, isEncoder, dict, win32, accel_list, disabled_codecs_>>
    /\ UNCHANGED devVars
    /\ UNCHANGED codecVars
    /\ UNCHANGED frameVars

----------------------------------------------------------------------------
(* Reference-counted device contexts (AVBufferRef over AVHWDeviceContext) *)

\* a device context as the library creates it: one reference, held by the
\* caller of the creating function
NewDevice(t, hwctx, name, source, call) ==
    [type |-> t, hwctx |-> hwctx, name |-> name, refcount |-> 1,
     user_opaque |-> NULL, free_child |-> FALSE, source_device |-> source,
     zeroed |-> 0, call |-> call]

\* av_buffer_ref: one more reference to the buffer
av_buffer_ref(h, id) ==
    [h EXCEPT ![id].refcount = @ + 1]

\* what the context's destructor releases: FreeChildContext::free releases the
\* context stored in user_opaque, the library then its own source reference
FreedChildren(b) ==
    (IF b.free_child /\ b.user_opaque # NULL THEN <<b.user_opaque>> ELSE <<>>)
    \o (IF b.source_device # NULL THEN <<b.source_device>> ELSE <<>>)

\* av_buffer_unref: one reference less; the last one runs the destructor.  A
\* release of an already destroyed buffer shows as a negative count.
RECURSIVE av_buffer_unref(_, _)
RECURSIVE UnrefAll(_, _)
UnrefAll(h, ids) ==
    IF ids = <<>> THEN h
    ELSE UnrefAll(av_buffer_unref(h, Head(ids)), Tail(ids))

av_buffer_unref(h, id) ==
    LET h1 == [h EXCEPT ![id].refcount = @ - 1]
    IN  IF h1[id].refcount = 0
        THEN UnrefAll([h1 EXCEPT ![id].zeroed = @ + 1], FreedChildren(h1[id]))
        ELSE h1

----------------------------------------------------------------------------
(* hw_check_device *)

\* std::string::find(str) != npos
ContainsString(hay, needle) ==
    \E i \in 0..(Len(hay) - Len(needle)) :
        SubSeq(hay, i + 1, i + Len(needle)) = needle

\* hw_check_device without the device-name filter
hw_check_device_NoNameFilter(h, ctx, type, subname) ==
    IF ctx = NULL THEN FALSE
    ELSE IF ~h[ctx].hwctx THEN FALSE
    ELSE IF h[ctx].type = AV_HWDEVICE_TYPE_VAAPI
         THEN type # AV_HWDEVICE_TYPE_QSV
         ELSE TRUE

\* hw_check_device with device_name filled in from the device
hw_check_device_RealName(h, ctx, type, subname) ==
    IF ctx = NULL THEN FALSE
    ELSE IF ~h[ctx].hwctx THEN FALSE
    ELSE LET device_name == h[ctx].name
             ret1 == IF h[ctx].type = AV_HWDEVICE_TYPE_VAAPI
                     THEN type # AV_HWDEVICE_TYPE_QSV
                     ELSE TRUE
         IN  IF ret1 /\ subname # EmptyStr
                     /\ ~ContainsString(device_name, subname)
             THEN FALSE
             ELSE ret1

\* hw_check_device(ctx, hw_type, device_subname): the local device_name is
\* declared empty and never assigned before it is searched
hw_check_device(h, ctx, type, subname) ==
    IF ctx = NULL THEN FALSE
    ELSE IF ~h[ctx].hwctx THEN FALSE
    ELSE LET device_name == EmptyStr
             ret1 == IF h[ctx].type = AV_HWDEVICE_TYPE_VAAPI
                     THEN type # AV_HWDEVICE_TYPE_QSV
                     ELSE TRUE
         IN  IF ret1 /\ subname # EmptyStr
                     /\ ~ContainsString(device_name, subname)
             THEN FALSE
             ELSE ret1

----------------------------------------------------------------------------
(* hw_create_derived_context *)

\* lines 232-234 without av_buffer_ref: the child pointer stored as it is
StoreChild_NoRef(h, derived, child) ==
    [h EXCEPT ![derived].user_opaque = child,
              ![derived].free_child = TRUE]

\* lines 232-234 left out: the derived context stores nothing
StoreChild_Nothing(h, derived, child) == h

\* lines 232-234: ctx->user_opaque = av_buffer_ref(hw_device_ctx);
\*                ctx->free = FreeChildContext::free
StoreChild(h, derived, child) ==
    [av_buffer_ref(h, child) EXCEPT ![derived].user_opaque = child,
                                    ![derived].free_child = TRUE]

\* hw_create_derived_context(hw_type, hw_device_ctx) when the library's
\* av_hwdevice_ctx_create_derived succeeded (ok) or failed: the heap and the
\* context returned.  On success the library has made context Len(h) + 1; it
\* keeps a reference of its own to the source context when retains.
hw_create_derived_context(h, type, child, ok, retains, call) ==
    IF ~ok
    THEN [heap |-> h, derived_ctx |-> NULL]
    ELSE LET id == Len(h) + 1
             made == Append(IF retains THEN av_buffer_ref(h, child) ELSE h,
                            NewDevice(type, TRUE, h[child].name,
                                      IF retains THEN child ELSE NULL, call))
         IN  [heap |-> StoreChild(made, id, child), derived_ctx |-> id]

----------------------------------------------------------------------------
(* hw_create_device *)

\* snprintf("%d") of a non-negative int
RECURSIVE ToDecimal(_)
ToDecimal(n) ==
    LET digit == <<"0", "1", "2", "3", "4", "5", "6", "7", "8", "9">>
    IN  IF n < 10 THEN <<digit[n + 1]>>
        ELSE ToDecimal(n \div 10) \o <<digit[(n % 10) + 1]>>

S_renderD == <<"/", "d", "e", "v", "/", "d", "r", "i", "/",
               "r", "e", "n", "d", "e", "r", "D">>

\* lines 248-255: the stages to try for a backend
ChildTypes(type, win) ==
    IF type = AV_HWDEVICE_TYPE_QSV
    THEN IF win THEN <<AV_HWDEVICE_TYPE_D3D11VA, AV_HWDEVICE_TYPE_DXVA2>>
                ELSE <<AV_HWDEVICE_TYPE_VAAPI>>
    ELSE <<type>>

\* the selector with the render node numbered by the bare index
DeviceSelector_NoOffset(child_type, index) ==
    IF index >= 0 /\ index < 100000
    THEN IF child_type = AV_HWDEVICE_TYPE_VAAPI
         THEN [null |-> FALSE, device |-> S_renderD \o ToDecimal(index)]
         ELSE [null |-> FALSE, device |-> ToDecimal(index)]
    ELSE [null |-> TRUE, device |-> EmptyStr]

\* lines 257-267: pdevice, the selector handed to av_hwdevice_ctx_create
DeviceSelector(child_type, index) ==
    IF index >= 0 /\ index < 100000
    THEN IF child_type = AV_HWDEVICE_TYPE_VAAPI
         THEN [null |-> FALSE, device |-> S_renderD \o ToDecimal(128 + index)]
         ELSE [null |-> FALSE, device |-> ToDecimal(index)]
    ELSE [null |-> TRUE, device |-> EmptyStr]

\* the human-readable names of the devices the host may have
DeviceNames == {S_iHD, S_x}

\* the device indexes a caller may ask for
DeviceIndexes == {-1, 0, 5, 99999, 100000}

\* no call of hw_create_device made yet; index is the caller's hw_device
NoDeviceCall(index) ==
    /\ pc = "idle"
    /\ hw_type = AV_HWDEVICE_TYPE_NONE
    /\ hw_device = index
    /\ device_subname = EmptyStr
    /\ child_types = <<>>
    /\ stage = 0
    /\ hw_device_ctx = NULL
    /\ derived_ctx = NULL
    /\ result = NULL
    /\ heap = <<>>
    /\ lib_calls = <<>>
    /\ attempts = 0

\* the caller hands the candidate parse_next() produced to hw_create_device;
\* lines 243-255: NONE returns NULL at once
HwCreateDevice_Call ==
    /\ pc \in {"idle", "returned"} /\ result = NULL
    /\ attempts < Len(yielded)
    /\ attempts' = Len(yielded)
    /\ hw_type' = hw_type_
    /\ device_subname' = device_subname_
    /\ hw_device_ctx' = NULL
    /\ derived_ctx' = NULL
    /\ result' = NULL
    /\ IF hw_type_ = AV_HWDEVICE_TYPE_NONE
       THEN /\ pc' = "returned"
            /\ UNCHANGED <<child_types, stage>>
       ELSE /\ pc' = "stage"
            /\ child_types' = ChildTypes(hw_type_, win32)
            /\ stage' = 1
    /\ UNCHANGED <<hw_device, heap, lib_calls>>
    /\ UNCHANGED <<iterVars, codecVars, frameVars>>

\* lines 256-270: the library is asked for a device of the stage's type and
\* fails (hw_device_ctx stays NULL, next stage) ...
HwCreateDevice_CreateFails ==
    /\ pc = "stage" /\ stage <= Len(child_types)
    /\ lib_calls' = Append(lib_calls,
                           [call |-> attempts,
                            type |-> child_types[stage],
                            pdevice |-> DeviceSelector(child_types[stage], hw_device)])
    /\ stage' = stage + 1
    /\ UNCHANGED <<pc, hw_type, hw_device, device_subname, child_types,
                   hw_device_ctx, derived_ctx, result, heap, attempts>>
    /\ UNCHANGED <<iterVars, codecVars, frameVars>>

\* ... or hands out a new device context
HwCreateDevice_CreateSucceeds ==
    /\ pc = "stage" /\ stage <= Len(child_types)
    /\ lib_calls' = Append(lib_calls,
                           [call |-> attempts,
                            type |-> child_types[stage],
                            pdevice |-> DeviceSelector(child_types[stage], hw_device)])
    /\ \E hwctx \in BOOLEAN, name \in DeviceNames :
          heap' = Append(heap, NewDevice(child_types[stage], hwctx, name,
                                         NULL, attempts))
    /\ hw_device_ctx' = Len(heap) + 1
    /\ pc' = "check"
    /\ UNCHANGED <<hw_type, hw_device, device_subname, child_types, stage,
                   derived_ctx, result, attempts>>
    /\ UNCHANGED <<iterVars, codecVars, frameVars>>

\* lines 273-276: a context that fails validation is released, next stage
HwCreateDevice_Reject ==
    /\ pc = "check"
    /\ ~hw_check_device(heap, hw_device_ctx, hw_type, device_subname)
    /\ heap' = av_buffer_unref(heap, hw_device_ctx)
    /\ hw_device_ctx' = NULL
    /\ stage' = stage + 1
    /\ pc' = "stage"
    /\ UNCHANGED <<hw_type, hw_device, device_subname, child_types,
                   derived_ctx, result, lib_calls, attempts>>
    /\ UNCHANGED <<iterVars, codecVars, frameVars>>

\* lines 283-285: a validated context of the requested type is returned
HwCreateDevice_ReturnDirect ==
    /\ pc = "check"
    /\ hw_check_device(heap, hw_device_ctx, hw_type, device_subname)
    /\ hw_type = child_types[stage]
    /\ result' = hw_device_ctx
    /\ pc' = "returned"
    /\ UNCHANGED <<hw_type, hw_device, device_subname, child_types, stage,
                   hw_device_ctx, derived_ctx, heap, lib_calls, attempts>>
    /\ UNCHANGED <<iterVars, codecVars, frameVars>>

\* line 280: a validated child context is derived to the requested type
HwCreateDevice_Derive ==
    /\ pc = "check"
    /\ hw_check_device(heap, hw_device_ctx, hw_type, device_subname)
    /\ hw_type # child_types[stage]
    /\ \E ok \in BOOLEAN, retains \in BOOLEAN :
          LET r == hw_create_derived_context(heap, hw_type, hw_device_ctx,
                                             ok, retains, attempts)
          IN  /\ heap' = r.heap
              /\ derived_ctx' = r.derived_ctx
    /\ pc' = "derived"
    /\ UNCHANGED <<hw_type, hw_device, device_subname, child_types, stage,
                   hw_device_ctx, result, lib_calls, attempts>>
    /\ UNCHANGED <<iterVars, codecVars, frameVars>>

\* lines 281-282: the local reference to the child is released and
\* derived_ctx, NULL or not, is returned
HwCreateDevice_ReturnDerived ==
    /\ pc = "derived"
    /\ heap' = av_buffer_unref(heap, hw_device_ctx)
    /\ hw_device_ctx' = NULL
    /\ result' = derived_ctx
    /\ pc' = "returned"
    /\ UNCHANGED <<hw_type, hw_device, device_subname, child_types, stage,
                   derived_ctx, lib_calls, attempts>>
    /\ UNCHANGED <<iterVars, codecVars, frameVars>>

\* line 293: the stages are exhausted
HwCreateDevice_ReturnNull ==
    /\ pc = "stage" /\ stage > Len(child_types)
    /\ result' = NULL
    /\ pc' = "returned"
    /\ UNCHANGED <<hw_type, hw_device, device_subname, child_types, stage,
                   hw_device_ctx, derived_ctx, heap, lib_calls, attempts>>
    /\ UNCHANGED <<iterVars, codecVars, frameVars>>

\* the session that owns the returned context releases it, once
OwnerRelease ==
    /\ pc = "returned" /\ result # NULL
    /\ fr.pc \in {"idle", "returned"} /\ cb.pc \in {"idle", "returned"}
    /\ heap' = av_buffer_unref(heap, result)
    /\ pc' = "released"
    /\ UNCHANGED <<hw_type, hw_device, device_subname, child_types, stage,
                   hw_device_ctx, derived_ctx, result, lib_calls, attempts>>
    /\ UNCHANGED <<iterVars, codecVars, frameVars>>


----------------------------------------------------------------------------
(* Codecs of the library *)

AV_PIX_FMT_NONE == "pix_none"
AV_PIX_FMT_NV12 == "pix_nv12"
AV_PIX_FMT_VAAPI_VLD == "pix_vaapi_vld"
AV_PIX_FMT_CUDA == "pix_cuda"
AV_PIX_FMT_QSV == "pix_qsv"
AV_PIX_FMT_D3D11 == "pix_d3d11"

S_h264 == <<"h", "2", "6", "4">>
S_hw == <<"h", "w">>

\* an AVCodecHWConfig: device_type, pix_fmt, and whether methods has
\* AV_CODEC_HW_CONFIG_METHOD_HW_FRAMES_CTX
HWConfig(t, fmt, frames) ==
    [device_type |-> t, pix_fmt |-> fmt, hw_frames_ctx |-> frames]

\* an AVCodec: pix_fmts is the list before its AV_PIX_FMT_NONE terminator,
\* or null
Codec(name, id, enc, exp, has_fmts, fmts, configs) ==
    [name |-> name, id |-> id, is_encoder |-> enc, experimental |-> exp,
     pix_fmts |-> [null |-> ~has_fmts, fmts |-> fmts],
     hw_configs |-> configs]

\* the codecs a library build may hold
CodecPool ==
    {Codec(S_h264, "H264", FALSE, FALSE, FALSE, <<>>,
           <<HWConfig(AV_HWDEVICE_TYPE_D3D11VA, AV_PIX_FMT_D3D11, TRUE),
             HWConfig(AV_HWDEVICE_TYPE_VAAPI, AV_PIX_FMT_VAAPI_VLD, TRUE)>>),
     Codec(S_h264 \o <<"_">> \o S_qsv, "H264", FALSE, FALSE, TRUE,
           <<AV_PIX_FMT_NV12, AV_PIX_FMT_QSV>>,
           <<HWConfig(AV_HWDEVICE_TYPE_QSV, AV_PIX_FMT_QSV, FALSE)>>),
     Codec(S_h264 \o <<"_">> \o S_vaapi, "H264", TRUE, FALSE, TRUE,
           <<AV_PIX_FMT_VAAPI_VLD>>,
           <<HWConfig(AV_HWDEVICE_TYPE_VAAPI, AV_PIX_FMT_VAAPI_VLD, TRUE)>>),
     Codec(<<"n", "v", "e", "n", "c">>, "H264", TRUE, FALSE, TRUE,
           <<AV_PIX_FMT_NV12, AV_PIX_FMT_CUDA>>, <<>>),
     Codec(S_x, "H264", FALSE, TRUE, FALSE, <<>>,
           <<HWConfig(AV_HWDEVICE_TYPE_VAAPI, AV_PIX_FMT_VAAPI_VLD, TRUE)>>),
     Codec(<<"v", "p", "8">>, "VP8", FALSE, FALSE, FALSE, <<>>,
           <<HWConfig(AV_HWDEVICE_TYPE_VAAPI, AV_PIX_FMT_VAAPI_VLD, TRUE)>>),
     Codec(S_h264 \o <<"_">> \o S_cuda, "H264", FALSE, FALSE, FALSE, <<>>,
           <<HWConfig(AV_HWDEVICE_TYPE_CUDA, AV_PIX_FMT_CUDA, TRUE),
             HWConfig(AV_HWDEVICE_TYPE_VAAPI, AV_PIX_FMT_VAAPI_VLD, TRUE)>>)}

CodecIDs == {"H264", "VP8"}

\* av_codec_is_decoder / av_codec_is_encoder, the category checks
check_category(category, c) ==
    IF category = "encoder" THEN c.is_encoder ELSE ~c.is_encoder

\* the enumerations of at most n codecs
RECURSIVE Registries(_)
Registries(n) ==
    IF n = 0 THEN {<<>>}
    ELSE LET shorter == Registries(n - 1)
         IN  shorter \cup {Append(r, c) : r \in shorter, c \in CodecPool}

----------------------------------------------------------------------------
(* hw_check_codec *)

\* line 383 without the "hw" wildcard
TokenDisables_NoWildcard(name, codec_name, hw_name) ==
    \/ name = codec_name
    \/ name = hw_name
    \/ name = codec_name \o hw_name

\* line 383: the token vetoes the codec
TokenDisables(name, codec_name, hw_name) ==
    \/ name = codec_name
    \/ name = hw_name
    \/ name = codec_name \o hw_name
    \/ name = S_hw

\* lines 380-388: the loop over the tokens of the stream
RECURSIVE CheckCodecLoop(_, _, _)
CheckCodecLoop(s_stream, codec_name, hw_name) ==
    IF ~stream_good(s_stream) THEN TRUE
    ELSE LET g == getline(s_stream, EmptyStr, ",")
         IN  IF TokenDisables(g.str, codec_name, hw_name) THEN FALSE
             ELSE CheckCodecLoop(g.stream, codec_name, hw_name)

\* hw_check_codec(codec, hw_type, disabled_codecs): TRUE when not disabled
hw_check_codec(codec, type, disabled_codecs) ==
    LET hw_name == Dot \o av_hwdevice_get_type_name(type)
    IN  CheckCodecLoop(istringstream(disabled_codecs), codec.name, hw_name)

----------------------------------------------------------------------------
(* hw_find_codec *)

\* lines 405-411: the native format of a backend whose encoders do not
\* answer avcodec_get_hw_config()
NativeFormat(type, old) ==
    IF type = AV_HWDEVICE_TYPE_CUDA THEN AV_PIX_FMT_CUDA
    ELSE IF old /\ type = AV_HWDEVICE_TYPE_VAAPI THEN AV_PIX_FMT_VAAPI_VLD
    ELSE AV_PIX_FMT_NONE

\* lines 413-419: the scan of c->pix_fmts from index i, [found, slot]
RECURSIVE ScanPixFmts(_, _, _, _, _, _)
ScanPixFmts(c, i, native, type, disabled_codecs, slot) ==
    IF i > Len(c.pix_fmts.fmts) THEN [found |-> FALSE, slot |-> slot]
    ELSE IF c.pix_fmts.fmts[i] = native
         THEN IF hw_check_codec(c, type, disabled_codecs)
              THEN [found |-> TRUE, slot |-> native]
              ELSE ScanPixFmts(c, i + 1, native, type, disabled_codecs, native)
    ELSE ScanPixFmts(c, i + 1, native, type, disabled_codecs, slot)

\* the scan of the hardware configs with the slot written only once the
\* codec passed hw_check_codec
RECURSIVE ScanHWConfigs_WriteOnPass(_, _, _, _, _)
ScanHWConfigs_WriteOnPass(c, i, type, disabled_codecs, slot) ==
    IF i > Len(c.hw_configs) THEN [found |-> FALSE, slot |-> slot]
    ELSE IF c.hw_configs[i].device_type = type
            /\ hw_check_codec(c, type, disabled_codecs)
         THEN [found |-> TRUE, slot |-> c.hw_configs[i].pix_fmt]
    ELSE ScanHWConfigs_WriteOnPass(c, i + 1, type, disabled_codecs, slot)

\* lines 421-430: the scan of the hardware configs from index i
RECURSIVE ScanHWConfigs(_, _, _, _, _)
ScanHWConfigs(c, i, type, disabled_codecs, slot) ==
    IF i > Len(c.hw_configs) THEN [found |-> FALSE, slot |-> slot]
    ELSE IF c.hw_configs[i].device_type = type
         THEN IF hw_check_codec(c, type, disabled_codecs)
              THEN [found |-> TRUE, slot |-> c.hw_configs[i].pix_fmt]
              ELSE ScanHWConfigs(c, i + 1, type, disabled_codecs,
                                 c.hw_configs[i].pix_fmt)
    ELSE ScanHWConfigs(c, i + 1, type, disabled_codecs, slot)

\* lines 421-430 alone: the hardware configs are the only thing scanned
TryHardware_ConfigsOnly(c, type, disabled_codecs, old, slot) ==
    ScanHWConfigs(c, 1, type, disabled_codecs, slot)

\* lines 404-430 for one codec that passed the filters: [found, slot]
TryHardware(c, type, disabled_codecs, old, slot) ==
    LET native == NativeFormat(type, old)
        first == IF c.is_encoder /\ native # AV_PIX_FMT_NONE /\ ~c.pix_fmts.null
                 THEN ScanPixFmts(c, 1, native, type, disabled_codecs, slot)
                 ELSE [found |-> FALSE, slot |-> slot]
    IN  IF first.found THEN first
        ELSE ScanHWConfigs(c, 1, type, disabled_codecs, first.slot)

\* the enumeration with the disabled-codec list consulted for the software
\* path as well
RECURSIVE FindCodecFrom_SoftwareVetoed(_, _, _, _, _, _, _, _)
FindCodecFrom_SoftwareVetoed(reg, k, id, type, category, disabled_codecs, old, slot) ==
    IF k > Len(reg) THEN [codec |-> NULL, slot |-> slot]
    ELSE IF ~check_category(category, reg[k])
            \/ reg[k].id # id
            \/ reg[k].experimental
         THEN FindCodecFrom_SoftwareVetoed(reg, k + 1, id, type, category,
                                           disabled_codecs, old, slot)
    ELSE IF type = AV_HWDEVICE_TYPE_NONE
         THEN IF CheckCodecLoop(istringstream(disabled_codecs), reg[k].name,
                                EmptyStr)
              THEN [codec |-> k, slot |-> slot]
              ELSE FindCodecFrom_SoftwareVetoed(reg, k + 1, id, type, category,
                                                disabled_codecs, old, slot)
    ELSE LET t == TryHardware(reg[k], type, disabled_codecs, old, slot)
         IN  IF t.found THEN [codec |-> k, slot |-> t.slot]
             ELSE FindCodecFrom_SoftwareVetoed(reg, k + 1, id, type, category,
                                               disabled_codecs, old, t.slot)

\* lines 396-436: the enumeration from codec k on; codec is the index of the
\* codec returned, NULL for none, slot the caller's *hw_pix_fmt afterwards
RECURSIVE FindCodecFrom(_, _, _, _, _, _, _, _)
FindCodecFrom(reg, k, id, type, category, disabled_codecs, old, slot) ==
    IF k > Len(reg) THEN [codec |-> NULL, slot |-> slot]
    ELSE IF ~check_category(category, reg[k])
            \/ reg[k].id # id
            \/ reg[k].experimental
         THEN FindCodecFrom(reg, k + 1, id, type, category, disabled_codecs,
                            old, slot)
    ELSE IF type = AV_HWDEVICE_TYPE_NONE
         THEN [codec |-> k, slot |-> slot]
    ELSE LET t == TryHardware(reg[k], type, disabled_codecs, old, slot)
         IN  IF t.found THEN [codec |-> k, slot |-> t.slot]
             ELSE FindCodecFrom(reg, k + 1, id, type, category,
                                disabled_codecs, old, t.slot)

hw_find_codec(reg, id, type, category, disabled_codecs, old, slot) ==
    FindCodecFrom(reg, 1, id, type, category, disabled_codecs, old, slot)

\* the disabled-codec lists handed to the selector: the defaults, and lists
\* of one or two tokens of every form
DisabledTokens ==
    {EmptyStr, S_hw, S_h264, Dot \o S_vaapi, S_h264 \o Dot \o S_vaapi, S_x \o S_hw}

DisabledLists ==
    {DecoderDisabledDefault(w) : w \in BOOLEAN}
    \cup {EncoderDisabledDefault(w) : w \in BOOLEAN}
    \cup DisabledTokens
    \cup {a \o Comma \o b : a \in DisabledTokens, b \in DisabledTokens}

\* no call of the codec selector made yet
NoCodecCall(reg, old) ==
    /\ codecs = reg
    /\ old_libavutil = old
    /\ last_call = [fn |-> "none", id |-> "H264",
                    hw_type |-> AV_HWDEVICE_TYPE_NONE, category |-> "decoder",
                    disabled_codecs |-> EmptyStr, codec |-> NULL,
                    slot_before |-> AV_PIX_FMT_NONE]
    /\ hw_pix_fmt = AV_PIX_FMT_NONE
    /\ ret = NULL

\* what the caller's slot holds when hw_find_codec is called: a format no
\* scan stores, so that a slot left alone differs from a slot written
SlotValues == {AV_PIX_FMT_NV12}

\* a call hw_find_codec(id, hw_type, check_category, disabled_codecs,
\* &hw_pix_fmt), the slot holding any of its values before
HwFindCodec ==
    /\ last_call.fn = "none"
    /\ \E id \in CodecIDs,
          type \in {AV_HWDEVICE_TYPE_NONE, AV_HWDEVICE_TYPE_VAAPI,
                    AV_HWDEVICE_TYPE_QSV, AV_HWDEVICE_TYPE_CUDA},
          category \in {"decoder", "encoder"},
          disabled \in DisabledLists,
          before \in SlotValues :
          LET r == hw_find_codec(codecs, id, type, category, disabled,
                                 old_libavutil, before)
          IN  /\ last_call' = [fn |-> "find", id |-> id, hw_type |-> type,
                               category |-> category,
                               disabled_codecs |-> disabled, codec |-> NULL,
                               slot_before |-> before]
              /\ ret' = r.codec
              /\ hw_pix_fmt' = r.slot
    /\ UNCHANGED <<codecs, old_libavutil>>
    /\ UNCHANGED <<iterVars, devVars, frameVars>>

\* a call hw_check_codec(codec, hw_type, disabled_codecs) on a codec of the
\* library and a hardware backend
HwCheckCodec ==
    /\ last_call.fn = "none"
    /\ \E k \in 1..Len(codecs),
          type \in {AV_HWDEVICE_TYPE_VAAPI, AV_HWDEVICE_TYPE_QSV,
                    AV_HWDEVICE_TYPE_CUDA},
          disabled \in DisabledLists :
          /\ last_call' = [fn |-> "check", id |-> codecs[k].id,
                           hw_type |-> type, category |-> "decoder",
                           disabled_codecs |-> disabled, codec |-> k,
                           slot_before |-> hw_pix_fmt]
          /\ ret' = hw_check_codec(codecs[k], type, disabled)
    /\ UNCHANGED <<codecs, old_libavutil, hw_pix_fmt>>
    /\ UNCHANGED <<iterVars, devVars, frameVars>>

----------------------------------------------------------------------------
(* Frame pools of the library *)

AV_PIX_FMT_P010 == "pix_p010"
AV_PIX_FMT_D3D11VA_VLD == "pix_d3d11va_vld"

\* line 29
HW_DEFAULT_POOL_SIZE == 32

\* another software format as the default
HW_DEFAULT_SW_FORMAT_P010 == AV_PIX_FMT_P010

\* line 30
HW_DEFAULT_SW_FORMAT == AV_PIX_FMT_NV12

AV_HWFRAME_MAP_READ == "map_read"
AV_HWFRAME_MAP_WRITE == "map_write"

\* an AVHWFramesContext as the library hands it out: one reference, held by
\* the caller; device_ref is the library's own reference to the device
\* context, source_frames its reference to the pool it was derived from,
\* source the pool it was derived from, made_by the library call it came from
NewFrames(device_ref, d, source, retained, flags, made_by, call) ==
    [device_ref |-> device_ref, format |-> d.format, sw_format |-> d.sw_format,
     width |-> d.width, height |-> d.height,
     initial_pool_size |-> d.initial_pool_size,
     refcount |-> 1, zeroed |-> 0, initialized |-> FALSE,
     source |-> source, source_frames |-> retained,
     flags |-> flags, user_opaque |-> NULL, made_by |-> made_by, call |-> call]

\* the descriptor av_hwframe_ctx_alloc leaves: nothing set
BlankDescriptor ==
    [format |-> AV_PIX_FMT_NONE, sw_format |-> AV_PIX_FMT_NONE,
     width |-> 0, height |-> 0, initial_pool_size |-> 0]

\* the descriptors avcodec_get_hw_frames_parameters may leave for hw_format:
\* a fixed-size pool of the coded size, a dynamically sized one, or nothing
ParamsDescriptors(hw_format) ==
    {[format |-> hw_format, sw_format |-> AV_PIX_FMT_P010,
      width |-> 656, height |-> 496, initial_pool_size |-> 20],
     [format |-> hw_format, sw_format |-> AV_PIX_FMT_NONE,
      width |-> 656, height |-> 496, initial_pool_size |-> 0],
     [format |-> AV_PIX_FMT_NONE, sw_format |-> AV_PIX_FMT_P010,
      width |-> 0, height |-> 0, initial_pool_size |-> 0]}

\* av_buffer_unref of a frame pool left out
av_buffer_unref_frames_Skipped(h, p, id) ==
    [heap |-> h, pools |-> p]

\* av_buffer_unref of a frame pool: one reference less; the last one
\* destroys the pool, which releases the library's references to the device
\* context and to the source pool
RECURSIVE av_buffer_unref_frames(_, _, _)
av_buffer_unref_frames(h, p, id) ==
    LET p1 == [p EXCEPT ![id].refcount = @ - 1]
    IN  IF p1[id].refcount # 0
        THEN [heap |-> h, pools |-> p1]
        ELSE LET p2 == [p1 EXCEPT ![id].zeroed = @ + 1]
                 h2 == av_buffer_unref(h, p2[id].device_ref)
             IN  IF p2[id].source_frames # NULL
                 THEN av_buffer_unref_frames(h2, p2, p2[id].source_frames)
                 ELSE [heap |-> h2, pools |-> p2]

\* av_hwframe_ctx_alloc(device) and the allocation inside
\* avcodec_get_hw_frames_parameters: a new pool holding a reference to device
av_hwframe_ctx_alloc(h, p, device, d, made_by, call) ==
    [heap |-> av_buffer_ref(h, device),
     pools |-> Append(p, NewFrames(device, d, NULL, NULL, {}, made_by, call)),
     ref |-> Len(p) + 1]

\* av_hwframe_ctx_create_derived(&derived, format, device, source, flags)
\* when it succeeds: a new initialized pool on device with the source's size
\* and software format; the library keeps a reference to the source pool when
\* retains
av_hwframe_ctx_create_derived(h, p, format, device, source, flags, retains, call) ==
    LET d == [format |-> format, sw_format |-> p[source].sw_format,
              width |-> p[source].width, height |-> p[source].height,
              initial_pool_size |-> p[source].initial_pool_size]
        p1 == IF retains THEN [p EXCEPT ![source].refcount = @ + 1] ELSE p
        made == NewFrames(device, d, source,
                          IF retains THEN source ELSE NULL,
                          flags, "derive", call)
    IN  [heap |-> av_buffer_ref(h, device),
         pools |-> Append(p1, [made EXCEPT !.initialized = TRUE]),
         ref |-> Len(p) + 1]

\* the format a device type's frame constraints list first
FirstValidHwFormat(type) ==
    CASE type = AV_HWDEVICE_TYPE_VAAPI -> AV_PIX_FMT_VAAPI_VLD
      [] type = AV_HWDEVICE_TYPE_D3D11VA -> AV_PIX_FMT_D3D11
      [] type = AV_HWDEVICE_TYPE_CUDA -> AV_PIX_FMT_CUDA
      [] type = AV_HWDEVICE_TYPE_QSV -> AV_PIX_FMT_QSV
      [] OTHER -> AV_PIX_FMT_D3D11VA_VLD

----------------------------------------------------------------------------
(* hw_create_frames *)

\* the context the pool is allocated against, any stored child taken
ChildCtx_AnyChild(h, device) ==
    IF h[device].type = AV_HWDEVICE_TYPE_QSV /\ h[device].user_opaque # NULL
    THEN h[device].user_opaque
    ELSE device

\* lines 299-307: the context the pool is allocated against
ChildCtx(h, device) ==
    IF h[device].type = AV_HWDEVICE_TYPE_QSV
    THEN LET ctx == h[device].user_opaque
         IN  IF ctx # NULL /\ h[ctx].type # AV_HWDEVICE_TYPE_DXVA2
             THEN ctx
             ELSE device
    ELSE device

\* the descriptor with the defaults stored whatever it held
FillDescriptor_AlwaysDefaults(f, width, height, hw_format, same, constraints, child_type) ==
    [f EXCEPT !.width = width, !.height = height,
              !.format = IF f.format # AV_PIX_FMT_NONE THEN f.format
                         ELSE IF same THEN hw_format
                         ELSE IF constraints THEN FirstValidHwFormat(child_type)
                         ELSE f.format,
              !.sw_format = HW_DEFAULT_SW_FORMAT,
              !.initial_pool_size = HW_DEFAULT_POOL_SIZE]

\* lines 326-344: the descriptor after the size is stored and the fields
\* still unset are filled in; same is child_ctx == hw_device_ctx, constraints
\* whether av_hwdevice_get_hwframe_constraints returned a list
FillDescriptor(f, width, height, hw_format, same, constraints, child_type) ==
    LET f1 == [f EXCEPT !.width = width, !.height = height]
        f2 == IF f1.format = AV_PIX_FMT_NONE
              THEN IF same
                   THEN [f1 EXCEPT !.format = hw_format]
                   ELSE IF constraints
                        THEN [f1 EXCEPT !.format = FirstValidHwFormat(child_type)]
                        ELSE f1
              ELSE f1
        f3 == IF f2.sw_format = AV_PIX_FMT_NONE
              THEN [f2 EXCEPT !.sw_format = HW_DEFAULT_SW_FORMAT]
              ELSE f2
    IN  IF f3.initial_pool_size = 0
        THEN [f3 EXCEPT !.initial_pool_size = HW_DEFAULT_POOL_SIZE]
        ELSE f3

\* no call of hw_create_frames made yet
NoFrames ==
    [pc |-> "idle", caller |-> "none", codec_ctx |-> FALSE,
     hw_device_ctx |-> NULL, width |-> 0, height |-> 0,
     hw_format |-> AV_PIX_FMT_NONE, child_ctx |-> NULL,
     hw_frames_ref |-> NULL, frames_ctx |-> NULL, derived_frame_ctx |-> NULL,
     ret |-> NULL, call |-> 0]

\* lines 297-310: entry of hw_create_frames(codec_ctx, hw_device_ctx, width,
\* height, hw_format), up to the choice between the capability query and the
\* plain allocation
EnterFrames(h, before, caller, codec_ctx, device, width, height, hw_format) ==
    [pc |-> IF codec_ctx THEN "params" ELSE "alloc",
     caller |-> caller, codec_ctx |-> codec_ctx,
     hw_device_ctx |-> device, width |-> width, height |-> height,
     hw_format |-> hw_format, child_ctx |-> ChildCtx(h, device),
     hw_frames_ref |-> NULL, frames_ctx |-> NULL, derived_frame_ctx |-> NULL,
     ret |-> NULL, call |-> before.call + 1]

\* the size the session asks for
FrameSize == [width |-> 640, height |-> 480]

\* the session calls hw_create_frames itself on the context it holds
HwCreateFrames_Call ==
    /\ pc = "returned" /\ result # NULL
    /\ fr.pc = "idle" /\ cb.pc = "idle"
    /\ \E codec_ctx \in BOOLEAN :
          fr' = EnterFrames(heap, fr, "direct", codec_ctx, result,
                            FrameSize.width, FrameSize.height,
                            FirstValidHwFormat(heap[result].type))
    /\ UNCHANGED <<pools, cb, cctx>>
    /\ UNCHANGED <<iterVars, devVars, codecVars>>

\* lines 311-317: avcodec_get_hw_frames_parameters leaves a pool or, failing,
\* nothing; its error is only logged
HwCreateFrames_Params ==
    /\ fr.pc = "params"
    /\ \/ /\ fr' = [fr EXCEPT !.pc = "alloc"]
          /\ UNCHANGED <<heap, pools>>
       \/ \E d \in ParamsDescriptors(fr.hw_format) :
             LET a == av_hwframe_ctx_alloc(heap, pools, fr.child_ctx, d,
                                           "params", fr.call)
             IN  /\ heap' = a.heap
                 /\ pools' = a.pools
                 /\ fr' = [fr EXCEPT !.pc = "fill", !.hw_frames_ref = a.ref,
                                     !.frames_ctx = a.ref]
    /\ UNCHANGED <<cb, cctx>>
    /\ UNCHANGED <<pc, hw_type, hw_device, device_subname, child_types, stage,
                   hw_device_ctx, derived_ctx, result, lib_calls, attempts>>
    /\ UNCHANGED <<iterVars, codecVars>>

\* lines 318-326: av_hwframe_ctx_alloc(child_ctx); NULL is returned when it
\* fails
HwCreateFrames_Alloc ==
    /\ fr.pc = "alloc"
    /\ \/ /\ fr' = [fr EXCEPT !.pc = "returned", !.ret = NULL]
          /\ UNCHANGED <<heap, pools>>
       \/ LET a == av_hwframe_ctx_alloc(heap, pools, fr.child_ctx,
                                        BlankDescriptor, "alloc", fr.call)
          IN  /\ heap' = a.heap
              /\ pools' = a.pools
              /\ fr' = [fr EXCEPT !.pc = "fill", !.hw_frames_ref = a.ref,
                                  !.frames_ctx = a.ref]
    /\ UNCHANGED <<cb, cctx>>
    /\ UNCHANGED <<pc, hw_type, hw_device, device_subname, child_types, stage,
                   hw_device_ctx, derived_ctx, result, lib_calls, attempts>>
    /\ UNCHANGED <<iterVars, codecVars>>

\* the descriptor fields of a pool
Descriptor(f) ==
    [format |-> f.format, sw_format |-> f.sw_format, width |-> f.width,
     height |-> f.height, initial_pool_size |-> f.initial_pool_size]

\* lines 327-344: the size and the defaults are written into the descriptor
HwCreateFrames_Fill ==
    /\ fr.pc = "fill"
    /\ \E constraints \in BOOLEAN :
          /\ (fr.child_ctx = fr.hw_device_ctx
                \/ pools[fr.frames_ctx].format # AV_PIX_FMT_NONE) => constraints
          /\ pools' = [pools EXCEPT ![fr.frames_ctx] =
                          FillDescriptor(@, fr.width, fr.height, fr.hw_format,
                                         fr.child_ctx = fr.hw_device_ctx,
                                         constraints, heap[fr.child_ctx].type)]
    /\ fr' = [fr EXCEPT !.pc = "init"]
    /\ UNCHANGED <<cb, cctx>>
    /\ UNCHANGED <<iterVars, devVars, codecVars>>

\* lines 346-352 and 367-369: av_hwframe_ctx_init; on failure the pool is
\* unreferenced and NULL returned, on success a pool allocated against the
\* device context itself is returned
HwCreateFrames_Init ==
    /\ fr.pc = "init"
    /\ \/ LET u == av_buffer_unref_frames(heap, pools, fr.hw_frames_ref)
          IN  /\ heap' = u.heap
              /\ pools' = u.pools
              /\ fr' = [fr EXCEPT !.pc = "returned", !.hw_frames_ref = NULL,
                                  !.ret = NULL]
       \/ /\ pools' = [pools EXCEPT ![fr.hw_frames_ref].initialized = TRUE]
          /\ heap' = heap
          /\ fr' = IF fr.child_ctx # fr.hw_device_ctx
                   THEN [fr EXCEPT !.pc = "derive"]
                   ELSE [fr EXCEPT !.pc = "returned", !.ret = fr.hw_frames_ref]
    /\ UNCHANGED <<cb, cctx>>
    /\ UNCHANGED <<pc, hw_type, hw_device, device_subname, child_types, stage,
                   hw_device_ctx, derived_ctx, result, lib_calls, attempts>>
    /\ UNCHANGED <<iterVars, codecVars>>

\* lines 354-366: the pool of the device context is derived from the child
\* pool, the child pool unreferenced, and the derived pool, tagged with the
\* child's descriptor, or NULL returned
HwCreateFrames_Derive ==
    /\ fr.pc = "derive"
    /\ \/ LET u == av_buffer_unref_frames(heap, pools, fr.hw_frames_ref)
          IN  /\ heap' = u.heap
              /\ pools' = u.pools
              /\ fr' = [fr EXCEPT !.pc = "returned", !.hw_frames_ref = NULL,
                                  !.ret = NULL]
       \/ \E retains \in BOOLEAN :
             LET flags == {AV_HWFRAME_MAP_READ, AV_HWFRAME_MAP_WRITE}
                 a == av_hwframe_ctx_create_derived(
                          heap, pools, fr.hw_format, fr.hw_device_ctx,
                          fr.hw_frames_ref, flags, retains, fr.call)
                 u == av_buffer_unref_frames(a.heap, a.pools, fr.hw_frames_ref)
             IN  /\ heap' = u.heap
                 /\ pools' = [u.pools EXCEPT ![a.ref].user_opaque = fr.frames_ctx]
                 /\ fr' = [fr EXCEPT !.pc = "returned", !.hw_frames_ref = NULL,
                                     !.derived_frame_ctx = a.ref,
                                     !.ret = a.ref]
    /\ UNCHANGED <<cb, cctx>>
    /\ UNCHANGED <<pc, hw_type, hw_device, device_subname, child_types, stage,
                   hw_device_ctx, derived_ctx, result, lib_calls, attempts>>
    /\ UNCHANGED <<iterVars, codecVars>>

----------------------------------------------------------------------------
(* hw_get_format_callback *)

\* the decoders whose get_format callback may run
CallbackCodecs ==
    {c \in CodecPool : ~c.is_encoder /\ ~c.experimental /\ c.id = "H264"}
    \cup {Codec(<<"h", "e", "v", "c", "_">> \o S_qsv, "HEVC", FALSE, FALSE,
                TRUE, <<AV_PIX_FMT_NV12, AV_PIX_FMT_QSV>>,
                <<HWConfig(AV_HWDEVICE_TYPE_QSV, AV_PIX_FMT_QSV, TRUE)>>),
          Codec(<<"h", "e", "v", "c">>, "HEVC", FALSE, FALSE, FALSE, <<>>,
                <<HWConfig(AV_HWDEVICE_TYPE_DXVA2, AV_PIX_FMT_D3D11VA_VLD, TRUE),
                  HWConfig(AV_HWDEVICE_TYPE_D3D11VA, AV_PIX_FMT_D3D11VA_VLD, TRUE),
                  HWConfig(AV_HWDEVICE_TYPE_D3D11VA, AV_PIX_FMT_D3D11, TRUE),
                  HWConfig(AV_HWDEVICE_TYPE_CUDA, AV_PIX_FMT_CUDA, TRUE)>>)}

\* the format lists the library may offer, before their AV_PIX_FMT_NONE
OfferedLists ==
    {<<AV_PIX_FMT_NV12>>,
     <<AV_PIX_FMT_VAAPI_VLD, AV_PIX_FMT_NV12>>,
     <<AV_PIX_FMT_D3D11VA_VLD, AV_PIX_FMT_D3D11, AV_PIX_FMT_NV12>>,
     <<AV_PIX_FMT_QSV, AV_PIX_FMT_NV12>>,
     <<AV_PIX_FMT_CUDA, AV_PIX_FMT_NV12>>}

\* no callback made yet; entry is what the codec context holds when the
\* callback is entered
NoCallback ==
    [pc |-> "idle", fmt |-> <<>>, j |-> 0, i |-> 0, ret |-> AV_PIX_FMT_NONE,
     entry |-> [sw_pix_fmt |-> AV_PIX_FMT_NONE, hw_frames_ctx |-> NULL]]

\* no codec context opened yet
NoCodecContext ==
    [codec |-> NULL, hw_device_ctx |-> NULL, width |-> 0, height |-> 0,
     sw_pix_fmt |-> AV_PIX_FMT_NONE, hw_frames_ctx |-> NULL]

NoFramesCall ==
    /\ pools = <<>>
    /\ fr = NoFrames
    /\ cb = NoCallback
    /\ cctx = NoCodecContext

\* the places with the methods of the configuration left unread
FramePlaces_AnyMethod(codec, type, fmt, j, i) ==
    {<<jj, ii>> \in (1..Len(codec.hw_configs)) \X (1..Len(fmt)) :
        /\ jj > j \/ (jj = j /\ ii >= i)
        /\ codec.hw_configs[jj].device_type = type
        /\ fmt[ii] = codec.hw_configs[jj].pix_fmt}

\* lines 446-456: the places (j, i) of the two loops, from (j, i) on, at
\* which hw_create_frames is called: entry j of the codec's hardware
\* configurations has the device's type, its pix_fmt is offered format i, and
\* its methods include AV_CODEC_HW_CONFIG_METHOD_HW_FRAMES_CTX
FramePlaces(codec, type, fmt, j, i) ==
    {<<jj, ii>> \in (1..Len(codec.hw_configs)) \X (1..Len(fmt)) :
        /\ jj > j \/ (jj = j /\ ii >= i)
        /\ codec.hw_configs[jj].device_type = type
        /\ fmt[ii] = codec.hw_configs[jj].pix_fmt
        /\ codec.hw_configs[jj].hw_frames_ctx}

\* the first of a non-empty set of places in loop order
FirstPlace(places) ==
    CHOOSE q \in places :
        \A r \in places : q[1] < r[1] \/ (q[1] = r[1] /\ q[2] <= r[2])

\* the software decoder is opened: the negotiation ended on the software
\* candidate or without a candidate left
NoDeviceAttached ==
    /\ result = NULL
    /\ \/ pc = "returned" /\ attempts = Len(yielded)
                          /\ (hw_type = AV_HWDEVICE_TYPE_NONE \/ ~good)
       \/ pc = "idle" /\ yielded = <<>> /\ ~good

\* lines 442-445: the library calls hw_get_format_callback(ctx, fmt); without
\* a device context the first offered format is returned at once
GetFormat_Call ==
    /\ fr.pc = "idle" /\ cb.pc = "idle"
    /\ NoDeviceAttached \/ (pc = "returned" /\ result # NULL)
    /\ \E codec \in CallbackCodecs, fmt \in OfferedLists :
          /\ cctx' = [codec |-> codec, hw_device_ctx |-> result,
                      width |-> FrameSize.width, height |-> FrameSize.height,
                      sw_pix_fmt |-> AV_PIX_FMT_NONE, hw_frames_ctx |-> NULL]
          /\ cb' = IF result = NULL
                   THEN [pc |-> "returned", fmt |-> fmt, j |-> 0, i |-> 0,
                         ret |-> fmt[1], entry |-> cb.entry]
                   ELSE [pc |-> "scan", fmt |-> fmt, j |-> 1, i |-> 1,
                         ret |-> AV_PIX_FMT_NONE, entry |-> cb.entry]
    /\ UNCHANGED <<pools, fr>>
    /\ UNCHANGED <<iterVars, devVars, codecVars>>

\* lines 446-455 and 464-465: the loops run on to the next place where a
\* frame pool is asked for, there sw_pix_fmt is set and hw_create_frames
\* entered; when the loops end the first offered format is returned
GetFormat_Scan ==
    /\ cb.pc = "scan"
    /\ LET places == FramePlaces(cctx.codec, heap[cctx.hw_device_ctx].type,
                                 cb.fmt, cb.j, cb.i)
       IN  IF places = {}
           THEN /\ cb' = [cb EXCEPT !.pc = "returned", !.ret = cb.fmt[1]]
                /\ UNCHANGED <<fr, cctx>>
           ELSE LET q == FirstPlace(places)
                IN  /\ cb' = [cb EXCEPT !.pc = "frames", !.j = q[1], !.i = q[2]]
                    /\ cctx' = [cctx EXCEPT !.sw_pix_fmt = HW_DEFAULT_SW_FORMAT]
                    /\ fr' = EnterFrames(heap, fr, "callback", TRUE,
                                         cctx.hw_device_ctx, cctx.width,
                                         cctx.height, cb.fmt[q[2]])
    /\ UNCHANGED pools
    /\ UNCHANGED <<iterVars, devVars, codecVars>>

\* lines 455-459: the pool hw_create_frames returned is stored in the codec
\* context; with a pool the offered format is returned, without one the
\* loops go on
GetFormat_Resume ==
    /\ cb.pc = "frames" /\ fr.pc = "returned"
    /\ cctx' = [cctx EXCEPT !.hw_frames_ctx = fr.ret]
    /\ IF fr.ret # NULL
       THEN /\ cb' = [cb EXCEPT !.pc = "returned", !.ret = cb.fmt[cb.i]]
            /\ fr' = fr
       ELSE /\ cb' = [cb EXCEPT !.pc = "scan", !.i = cb.i + 1]
            /\ fr' = [fr EXCEPT !.pc = "idle"]
    /\ UNCHANGED pools
    /\ UNCHANGED <<iterVars, devVars, codecVars>>

----------------------------------------------------------------------------
(* Configuration dictionaries supplied by the caller *)

AccelKey(va, enc) ==
    (IF enc THEN "hw_encoders_" ELSE "hw_decoders_") \o getVideoAccelerationName(va)

DisabledKey(enc) ==
    IF enc THEN "hw_disabled_encoders" ELSE "hw_disable_decoders"

\* another preference, to own an entry the constructor must not read
OtherPreference(va) ==
    IF va = VIDEO_ACCELERATION_ANY THEN VIDEO_ACCELERATION_NONE
    ELSE VIDEO_ACCELERATION_ANY

\* entries beside the override of (va, enc): none, the same preference for
\* the other role, another preference for the same role, the disable list
SideEntries(va, enc) ==
    {<<>>,
     AccelKey(va, ~enc) :> S_qsv,
     AccelKey(OtherPreference(va), enc) :> S_cuda,
     DisabledKey(enc) :> <<"h", "w">>}

\* the dictionaries with or without an override for (va, enc) among values
Dictionaries(va, enc, values) ==
    {NullDict}
    \cup {[null |-> FALSE, entries |-> side] : side \in SideEntries(va, enc)}
    \cup {[null |-> FALSE, entries |-> (AccelKey(va, enc) :> v) @@ side] :
            v \in values, side \in SideEntries(va, enc)}

\* the strings of at most n pieces, each a backend name, a '.' or a ','
Pieces == {S_vaapi, S_x, Dot, Comma}

RECURSIVE PieceStrings(_)
PieceStrings(n) ==
    IF n = 0 THEN {EmptyStr}
    ELSE LET shorter == PieceStrings(n - 1)
         IN  shorter \cup {p \o s : p \in Pieces, s \in shorter}

----------------------------------------------------------------------------
(* Specification of the candidate iterator alone *)

InitIter ==
    \E va \in VideoAccelerationType, enc \in BOOLEAN, win \in BOOLEAN :
        \E d \in Dictionaries(va, enc, PieceStrings(MaxPieces)) :
            /\ Constructed(va, enc, d, win)
            /\ NoDeviceCall(-1)
            /\ NoCodecCall(<<>>, FALSE)
            /\ NoFramesCall

NextIter == ParseNext

SpecIter == InitIter /\ [][NextIter]_vars

----------------------------------------------------------------------------
(* Specification of the negotiation: iterator and device context builder *)

\* the overrides of the negotiation
DevOverrides ==
    {EmptyStr,
     S_qsv,
     S_vaapi \o Dot \o S_x \o Comma \o S_d3d11va,
     S_cuda \o Comma \o S_qsv \o Dot \o S_iHD}

InitDev ==
    \E va \in VideoAccelerationType, enc \in BOOLEAN, win \in BOOLEAN :
        \E d \in Dictionaries(va, enc, DevOverrides), index \in DeviceIndexes :
            /\ Constructed(va, enc, d, win)
            /\ NoDeviceCall(index)
            /\ NoCodecCall(<<>>, FALSE)
            /\ NoFramesCall

NextDev ==
    \/ ParseNext
    \/ HwCreateDevice_Call
    \/ HwCreateDevice_CreateFails
    \/ HwCreateDevice_CreateSucceeds
    \/ HwCreateDevice_Reject
    \/ HwCreateDevice_ReturnDirect
    \/ HwCreateDevice_Derive
    \/ HwCreateDevice_ReturnDerived
    \/ HwCreateDevice_ReturnNull
    \/ OwnerRelease

SpecDev == InitDev /\ [][NextDev]_vars

----------------------------------------------------------------------------
(* Specification of a session: negotiation, frame pool builder and format
   callback *)

\* the dictionaries of a session: none, or the override alone
SessionDictionaries(va, enc) ==
    {NullDict}
    \cup {[null |-> FALSE, entries |-> (AccelKey(va, enc) :> v)] :
            v \in DevOverrides}

InitSession ==
    \E va \in VideoAccelerationType, enc \in BOOLEAN, win \in BOOLEAN :
        \E d \in SessionDictionaries(va, enc) :
            /\ Constructed(va, enc, d, win)
            /\ NoDeviceCall(-1)
            /\ NoCodecCall(<<>>, FALSE)
            /\ NoFramesCall

NextSession ==
    \/ NextDev
    \/ HwCreateFrames_Call
    \/ HwCreateFrames_Params
    \/ HwCreateFrames_Alloc
    \/ HwCreateFrames_Fill
    \/ HwCreateFrames_Init
    \/ HwCreateFrames_Derive
    \/ GetFormat_Call
    \/ GetFormat_Scan
    \/ GetFormat_Resume

SpecSession == InitSession /\ [][NextSession]_vars

----------------------------------------------------------------------------
(* Specification of the codec selector *)

InitCodec ==
    \E reg \in Registries(MaxCodecs), old \in BOOLEAN :
        /\ Constructed(VIDEO_ACCELERATION_NONE, FALSE, NullDict, FALSE)
        /\ NoDeviceCall(-1)
        /\ NoCodecCall(reg, old)
        /\ NoFramesCall

NextCodec ==
    \/ HwFindCodec
    \/ HwCheckCodec

SpecCodec == InitCodec /\ [][NextCodec]_vars

----------------------------------------------------------------------------
(* Helpers of the properties *)

\* the entries of a comma-separated list: one more than it has commas
RECURSIVE SplitComma(_)
SplitComma(s) ==
    LET k == find(s, ",")
    IN  IF k = 0 THEN <<s>>
        ELSE <<SubSeq(s, 1, k - 1)>> \o SplitComma(SubSeq(s, k + 1, Len(s)))

\* an empty fragment configures no entry at all
ListEntries(s) == IF s = EmptyStr THEN <<>> ELSE SplitComma(s)

\* the list that holds the given entries
RECURSIVE JoinComma(_)
JoinComma(es) ==
    IF es = <<>> THEN EmptyStr
    ELSE IF Len(es) = 1 THEN es[1]
    ELSE es[1] \o Comma \o JoinComma(Tail(es))

CountCommas(s) == Cardinality({i \in 1..Len(s) : s[i] = ","})

Contains(s, ch) == \E i \in 1..Len(s) : s[i] = ch

IsRegisteredName(name) ==
    \E t \in HWDeviceTypes : av_hwdevice_get_type_name(t) = name

OverridePresent ==
    ~dict.null /\ AccelKey(va_type, isEncoder) \in DOMAIN dict.entries

\* the fragment configured for (va_type, isEncoder): override, else default
ConfiguredFragment ==
    IF OverridePresent
    THEN dict.entries[AccelKey(va_type, isEncoder)]
    ELSE IF isEncoder THEN EncoderDefault(va_type, win32)
                      ELSE DecoderDefault(va_type, win32)

YieldedTokens == [i \in 1..Len(yielded) |-> yielded[i].token]

YieldedCandidates ==
    [i \in 1..Len(yielded) |-> <<yielded[i].hw_type, yielded[i].device_subname>>]

----------------------------------------------------------------------------
(* Properties of the candidate iterator *)

\* C1: for every preference other than NONE the candidate list is the
\* override stored under hw_decoders_<P> / hw_encoders_<P> verbatim when the
\* key is present and the platform default otherwise; for ANY it is that list
\* with exactly one empty entry added at its end.
C1_CandidateList ==
    va_type # VIDEO_ACCELERATION_NONE =>
        IF va_type = VIDEO_ACCELERATION_ANY
        THEN accel_list =
                JoinComma(Append(ListEntries(ConfiguredFragment), EmptyStr))
        ELSE accel_list = ConfiguredFragment

C1_Witness ==
    /\ va_type = VIDEO_ACCELERATION_ANY
    /\ OverridePresent
    /\ ConfiguredFragment = S_x \o Comma \o S_vaapi
    /\ accel_list = S_x \o Comma \o S_vaapi \o Comma

\* C2: for ANY the loop yields at least one candidate, the last one it yields
\* is (none, "") and comes after the configured entries; the POSIX decoder
\* defaults yield exactly (vaapi, "iHD") then (none, "").
C2_AnyEndsInSoftware ==
    (va_type = VIDEO_ACCELERATION_ANY /\ ~good) =>
        /\ Len(yielded) >= 1
        /\ yielded[Len(yielded)].hw_type = AV_HWDEVICE_TYPE_NONE
        /\ yielded[Len(yielded)].device_subname = EmptyStr
        /\ SubSeq(YieldedTokens, 1, Len(yielded) - 1)
              = ListEntries(ConfiguredFragment)
        /\ (~OverridePresent /\ ~win32 /\ ~isEncoder) =>
              YieldedCandidates = <<<<AV_HWDEVICE_TYPE_VAAPI, S_iHD>>,
                                    <<AV_HWDEVICE_TYPE_NONE, EmptyStr>>>>

C2_Witness ==
    /\ va_type = VIDEO_ACCELERATION_ANY
    /\ ~good
    /\ ~OverridePresent /\ ~win32 /\ ~isEncoder
    /\ Len(yielded) = 2
    /\ yielded[1].hw_type = AV_HWDEVICE_TYPE_VAAPI

\* C5: for a non-empty candidate list the tokens yielded while good() are
\* the comma-separated entries of the list in order, none skipped or merged,
\* and the loop ends right after the last one (commas + 1 tokens).
C5_TokensInOrder ==
    accel_list # EmptyStr =>
        /\ Len(yielded) <= Len(SplitComma(accel_list))
        /\ YieldedTokens = SubSeq(SplitComma(accel_list), 1, Len(yielded))
        /\ good <=> Len(yielded) < CountCommas(accel_list) + 1

C5_Witness ==
    /\ ~good
    /\ Len(yielded) = 3
    /\ yielded[1].token = S_x
    /\ yielded[2].token = EmptyStr
    /\ yielded[3].token = S_vaapi

\* C6: a token is split at its first '.' only: the name has no '.', the
\* device substring is all that follows the first '.', and a token with no
\* '.' leaves an empty device substring whatever the token before it left.
C6_SplitOnFirstDot ==
    /\ \A i \in 1..Len(yielded) :
          IF Contains(yielded[i].token, ".")
          THEN /\ ~Contains(yielded[i].hw_type_string, ".")
               /\ yielded[i].token = yielded[i].hw_type_string \o Dot
                                        \o yielded[i].device_subname
          ELSE /\ yielded[i].hw_type_string = yielded[i].token
               /\ yielded[i].device_subname = EmptyStr
    /\ Len(yielded) >= 1 =>
          /\ device_subname_ = yielded[Len(yielded)].device_subname
          /\ hw_type_string_ = yielded[Len(yielded)].hw_type_string

C6_Witness ==
    /\ Len(yielded) >= 2
    /\ Contains(yielded[Len(yielded) - 1].device_subname, ".")
    /\ yielded[Len(yielded)].token = S_x
    /\ device_subname_ = EmptyStr

\* C7: a token whose name is not a registered device type leaves hw_type()
\* at the no-backend sentinel and nothing else: good() still tells whether
\* entries remain, and the entries after it are yielded and resolved as
\* usual.
C7_UnknownNameIsSkipped ==
    \A i \in 1..Len(yielded) :
        ~IsRegisteredName(yielded[i].hw_type_string) =>
            /\ yielded[i].hw_type = AV_HWDEVICE_TYPE_NONE
            /\ i = Len(yielded) => hw_type_ = AV_HWDEVICE_TYPE_NONE
            /\ good <=> Len(yielded) < Len(SplitComma(s_stream_.buf))
            /\ \A j \in (i + 1)..Len(yielded) :
                  /\ yielded[j].token = SplitComma(s_stream_.buf)[j]
                  /\ IsRegisteredName(yielded[j].hw_type_string) =>
                        av_hwdevice_get_type_name(yielded[j].hw_type)
                            = yielded[j].hw_type_string

C7_Witness ==
    /\ Len(yielded) = 2
    /\ yielded[1].hw_type_string = S_x
    /\ yielded[1].hw_type = AV_HWDEVICE_TYPE_NONE
    /\ yielded[2].hw_type = AV_HWDEVICE_TYPE_VAAPI
    /\ ~good

----------------------------------------------------------------------------
(* Properties of the negotiation and the device context builder *)

\* the contexts made during the current call of hw_create_device
MadeInCall == {id \in 1..Len(heap) : heap[id].call = attempts}

\* the contexts that store a child context
DerivedContexts ==
    {id \in 1..Len(heap) : heap[id].free_child /\ heap[id].user_opaque # NULL}

\* C3: a specific-backend preference whose candidate list is empty leaves
\* good() false from construction on: the loop yields no candidate and no
\* device creation is attempted.
C3_EmptySpecificListYieldsNothing ==
    (/\ va_type # VIDEO_ACCELERATION_NONE
     /\ va_type # VIDEO_ACCELERATION_ANY
     /\ accel_list = EmptyStr) =>
        /\ ~good
        /\ yielded = <<>>
        /\ attempts = 0
        /\ lib_calls = <<>>
        /\ pc = "idle"

C3_Witness ==
    /\ va_type = VIDEO_ACCELERATION_MFX
    /\ OverridePresent
    /\ accel_list = EmptyStr
    /\ ~good
    /\ yielded = <<>>

\* C4: for NONE the candidate list and the disabled-codec list are empty
\* whatever the dictionary holds, every candidate yielded has backend none,
\* and hw_create_device called with backend none returns no context and
\* makes no device-creation call.
C4_NoneNeverTouchesHardware ==
    /\ va_type = VIDEO_ACCELERATION_NONE =>
          /\ accel_list = EmptyStr
          /\ disabled_codecs_ = EmptyStr
          /\ \A i \in 1..Len(yielded) :
                yielded[i].hw_type = AV_HWDEVICE_TYPE_NONE
          /\ lib_calls = <<>>
          /\ result = NULL
    /\ (pc = "returned" /\ hw_type = AV_HWDEVICE_TYPE_NONE) =>
          /\ result = NULL
          /\ \A i \in 1..Len(lib_calls) : lib_calls[i].call # attempts
          /\ MadeInCall = {}

C4_Witness ==
    /\ va_type = VIDEO_ACCELERATION_NONE
    /\ OverridePresent
    /\ dict.entries[AccelKey(va_type, isEncoder)] = S_qsv
    /\ DisabledKey(isEncoder) \in DOMAIN dict.entries
    /\ Len(yielded) = 1
    /\ attempts = 1
    /\ pc = "returned"
    /\ result = NULL

\* C8: hw_create_device never returns a context whose device name does not
\* contain the non-empty device-name substring it was given; such a context
\* has been released when the call returns.
C8_NameFilterRejects ==
    (pc = "returned" /\ device_subname # EmptyStr) =>
        /\ result # NULL => ContainsString(heap[result].name, device_subname)
        /\ \A id \in MadeInCall :
              ~ContainsString(heap[id].name, device_subname) =>
                  /\ id # result
                  /\ heap[id].refcount = 0

C8_Witness ==
    /\ pc = "returned"
    /\ device_subname = S_x
    /\ result = NULL
    /\ \E id \in MadeInCall :
          /\ heap[id].hwctx
          /\ heap[id].name = S_iHD
          /\ heap[id].refcount = 0
          /\ heap[id].zeroed = 1

\* C9: the child context a derived context retains is released exactly
\* once, by the release of the derived context: while the derived context is
\* alive the child is alive and was never destroyed, once it is released the
\* child holds no reference and was destroyed once, and its count is never
\* negative.
C9_ChildReleasedOnce ==
    \A id \in DerivedContexts :
        LET child == heap[heap[id].user_opaque]
        IN  /\ child.refcount >= 0
            /\ child.zeroed <= 1
            /\ heap[id].refcount > 0 => (child.refcount >= 1 /\ child.zeroed = 0)
            /\ heap[id].refcount = 0 => (child.refcount = 0 /\ child.zeroed = 1)
            /\ heap[id].refcount >= 0 /\ heap[id].zeroed <= 1

C9_Witness ==
    /\ pc = "released"
    /\ result \in DerivedContexts
    /\ heap[result].type = AV_HWDEVICE_TYPE_QSV
    /\ heap[result].refcount = 0
    /\ heap[heap[result].user_opaque].refcount = 0
    /\ heap[heap[result].user_opaque].zeroed = 1

----------------------------------------------------------------------------
(* Properties of the codec selector *)

\* the codec of the last hw_check_codec call
CheckedCodec == codecs[last_call.codec]

\* some entry of the disabled-codec list is the given token
HasToken(list, token) ==
    LET entries == SplitComma(list)
    IN  \E i \in 1..Len(entries) : entries[i] = token

\* C10: hw_check_codec reports the codec disabled exactly when an entry of
\* the list is its name, ".<backend>", name + ".<backend>" or "hw"; with an
\* entry "hw" hw_find_codec returns no codec for any hardware backend and id.
C10_DisableCheck ==
    /\ last_call.fn = "check" =>
          (ret = FALSE <=>
              \/ HasToken(last_call.disabled_codecs, CheckedCodec.name)
              \/ HasToken(last_call.disabled_codecs,
                          Dot \o av_hwdevice_get_type_name(last_call.hw_type))
              \/ HasToken(last_call.disabled_codecs,
                          CheckedCodec.name \o Dot
                              \o av_hwdevice_get_type_name(last_call.hw_type))
              \/ HasToken(last_call.disabled_codecs, S_hw))
    /\ (/\ last_call.fn = "find"
        /\ last_call.hw_type # AV_HWDEVICE_TYPE_NONE
        /\ HasToken(last_call.disabled_codecs, S_hw)) => ret = NULL

C10_Witness ==
    /\ last_call.fn = "find"
    /\ last_call.hw_type = AV_HWDEVICE_TYPE_VAAPI
    /\ last_call.id = "H264"
    /\ last_call.category = "decoder"
    /\ last_call.disabled_codecs = S_x \o S_hw \o Comma \o S_hw
    /\ Len(codecs) >= 1
    /\ codecs[1].name = S_h264
    /\ ret = NULL

\* the codecs of the last hw_find_codec call that pass the category check,
\* have the requested id and are not experimental
Eligible ==
    {k \in 1..Len(codecs) :
        /\ codecs[k].is_encoder = (last_call.category = "encoder")
        /\ codecs[k].id = last_call.id
        /\ ~codecs[k].experimental}

\* C11: with backend none hw_find_codec returns the first codec in
\* enumeration order of the right category and id that is not experimental,
\* whatever the disabled-codec list holds, and no codec only when there is
\* none such.
C11_SoftwareFirstMatch ==
    (last_call.fn = "find" /\ last_call.hw_type = AV_HWDEVICE_TYPE_NONE) =>
        IF Eligible = {}
        THEN ret = NULL
        ELSE /\ ret \in Eligible
             /\ \A k \in Eligible : ret <= k

C11_Witness ==
    /\ last_call.fn = "find"
    /\ last_call.hw_type = AV_HWDEVICE_TYPE_NONE
    /\ last_call.disabled_codecs = S_h264 \o Comma \o S_hw
    /\ Len(codecs) = 2
    /\ codecs[1].experimental
    /\ codecs[2].name = S_h264
    /\ ret = 2

\* the number a string of decimal digits denotes, -1 when it is not the
\* canonical decimal text of a number
RECURSIVE DigitsValue(_)
DigitsValue(str) ==
    IF str = <<>> THEN 0
    ELSE LET d == CHOOSE v \in -1..9 :
                     \/ v >= 0 /\ <<str[Len(str)]>> = ToDecimal(v)
                     \/ v = -1 /\ \A w \in 0..9 :
                                      <<str[Len(str)]>> # ToDecimal(w)
             rest == DigitsValue(SubSeq(str, 1, Len(str) - 1))
         IN  IF d = -1 \/ rest = -1 THEN -1 ELSE 10 * rest + d

DecimalValue(str) ==
    IF str = <<>> \/ (Len(str) > 1 /\ str[1] = "0") THEN -1
    ELSE DigitsValue(str)

\* C13: the selector handed to device creation is "/dev/dri/renderD" followed
\* by 128 + index when the stage tag is VAAPI and 0 <= index < 100000 (index 0
\* gives 128, index 5 gives 133), the decimal text of the index for any other
\* stage tag, and absent when the index is negative or at least 100000.
C13_Selector ==
    \A n \in 1..Len(lib_calls) :
        LET c == lib_calls[n]
            d == c.pdevice.device
        IN  IF hw_device < 0 \/ hw_device >= 100000
            THEN c.pdevice.null
            ELSE /\ ~c.pdevice.null
                 /\ IF c.type = AV_HWDEVICE_TYPE_VAAPI
                    THEN /\ Len(d) > Len(S_renderD)
                         /\ SubSeq(d, 1, Len(S_renderD)) = S_renderD
                         /\ DecimalValue(SubSeq(d, Len(S_renderD) + 1, Len(d)))
                                = 128 + hw_device
                         /\ hw_device = 0 => d = S_renderD \o <<"1", "2", "8">>
                         /\ hw_device = 5 => d = S_renderD \o <<"1", "3", "3">>
                    ELSE DecimalValue(d) = hw_device

C13_Witness ==
    /\ hw_device = 5
    /\ \E n \in 1..Len(lib_calls) :
           /\ lib_calls[n].type = AV_HWDEVICE_TYPE_VAAPI
           /\ lib_calls[n].pdevice.device = S_renderD \o <<"1", "3", "3">>
    /\ \E n \in 1..Len(lib_calls) :
           /\ lib_calls[n].type = AV_HWDEVICE_TYPE_D3D11VA
           /\ lib_calls[n].pdevice.device = <<"5">>

\* the built-in default of (va_type, isEncoder) on this platform
DefaultFragment ==
    IF isEncoder THEN EncoderDefault(va_type, win32)
                 ELSE DecoderDefault(va_type, win32)

\* the value stored under the override key
OverrideValue == dict.entries[AccelKey(va_type, isEncoder)]

\* the fragment the resolver gave the constructor, read back from accel_list:
\* for ANY a non-empty fragment was stored with a comma after it
ResolvedFragment ==
    IF va_type = VIDEO_ACCELERATION_ANY /\ accel_list # EmptyStr
    THEN SubSeq(accel_list, 1, Len(accel_list) - 1)
    ELSE accel_list

\* C15: the resolver uses an override only if it is present and non-empty; an
\* override that is present with an empty value is not used, the built-in
\* default is.
C15_EmptyOverrideFallsBack ==
    va_type # VIDEO_ACCELERATION_NONE =>
        ResolvedFragment =
            IF OverridePresent /\ OverrideValue # EmptyStr
            THEN OverrideValue
            ELSE DefaultFragment

\* C15 as the code has it: the resolver uses an override whenever it is
\* present, and an override with an empty value gives the empty fragment; the
\* built-in default is used only when the key is absent.
C15_PresentOverrideUsed ==
    va_type # VIDEO_ACCELERATION_NONE =>
        /\ OverridePresent => ResolvedFragment = OverrideValue
        /\ ~OverridePresent => ResolvedFragment = DefaultFragment
        /\ (OverridePresent /\ OverrideValue = EmptyStr) =>
               accel_list = EmptyStr

C15_Witness ==
    /\ va_type = VIDEO_ACCELERATION_VAAPI
    /\ ~win32
    /\ OverridePresent
    /\ OverrideValue = EmptyStr
    /\ DefaultFragment = S_vaapi \o Dot \o S_iHD
    /\ accel_list = EmptyStr
    /\ ~good

\* C16: with a non-empty device-name substring hw_check_device rejects every
\* context, whatever the device is called, so hw_create_device returns no
\* context and keeps none alive; a context is returned only when the
\* substring is empty.
C16_NonEmptyFilterNeverYields ==
    /\ result # NULL => device_subname = EmptyStr
    /\ device_subname # EmptyStr =>
          /\ derived_ctx = NULL
          /\ pc \notin {"derived", "released"}
          /\ pc = "check" =>
                ~hw_check_device(heap, hw_device_ctx, hw_type, device_subname)
          /\ pc = "returned" =>
                \A id \in MadeInCall : heap[id].refcount = 0

C16_Witness ==
    /\ pc = "returned"
    /\ ~OverridePresent
    /\ device_subname = S_iHD
    /\ hw_type = AV_HWDEVICE_TYPE_VAAPI
    /\ result = NULL
    /\ \E id \in MadeInCall :
          /\ heap[id].hwctx
          /\ heap[id].type = AV_HWDEVICE_TYPE_VAAPI
          /\ heap[id].name = S_iHD
          /\ heap[id].refcount = 0

\* the av_hwdevice_ctx_create calls of the current hw_create_device call
CallsOfAttempt ==
    SelectSeq(lib_calls, LAMBDA c : c.call = attempts)

\* C17: for a backend other than none hw_create_device tries the stage tags
\* in their order and returns at the first stage that is created and
\* validated; whenever it returns no context, device creation has been
\* attempted for every stage tag.
C17_AllStagesTried ==
    (pc = "returned" /\ hw_type # AV_HWDEVICE_TYPE_NONE) =>
        LET tried == CallsOfAttempt
        IN  /\ Len(tried) <= Len(child_types)
            /\ \A n \in 1..Len(tried) : tried[n].type = child_types[n]
            /\ result # NULL =>
                  LET made == IF heap[result].user_opaque # NULL
                              THEN heap[result].user_opaque ELSE result
                  IN  heap[made].type = child_types[Len(tried)]
            /\ result = NULL => Len(tried) = Len(child_types)

\* C18: a context hw_create_device returns for a two-stage backend has the
\* requested tag and stores a reference to the child context of the stage it
\* was derived from, and until the owner releases the returned context that
\* child holds at least one reference and has not been destroyed.
C18_DerivedKeepsChild ==
    (pc = "returned" /\ result # NULL
        /\ child_types[stage] # hw_type) =>
        /\ heap[result].type = hw_type
        /\ heap[result].refcount >= 1
        /\ heap[result].user_opaque # NULL
        /\ LET child == heap[heap[result].user_opaque]
           IN  /\ child.type = child_types[stage]
               /\ child.call = attempts
               /\ child.refcount >= 1
               /\ child.zeroed = 0

C18_Witness ==
    /\ pc = "returned"
    /\ result # NULL
    /\ hw_type = AV_HWDEVICE_TYPE_QSV
    /\ stage = 2
    /\ heap[result].type = AV_HWDEVICE_TYPE_QSV
    /\ heap[result].user_opaque # NULL
    /\ heap[heap[result].user_opaque].type = AV_HWDEVICE_TYPE_DXVA2
    /\ heap[heap[result].user_opaque].refcount = 1

----------------------------------------------------------------------------
(* Properties of the frame pool builder and the format callback *)

\* what a step of hw_create_frames does to the descriptor it fills: the size
\* becomes the requested one, sw_format and initial_pool_size get their
\* defaults if unset and stay as they are otherwise
FillStepKeepsQueried ==
    (fr.pc = "fill" /\ fr'.pc = "init") =>
        LET before == pools[fr.frames_ctx]
            after == pools'[fr.frames_ctx]
        IN  /\ after.width = fr.width
            /\ after.height = fr.height
            /\ after.sw_format =
                  IF before.sw_format = AV_PIX_FMT_NONE
                  THEN AV_PIX_FMT_NV12 ELSE before.sw_format
            /\ after.initial_pool_size =
                  IF before.initial_pool_size = 0
                  THEN 32 ELSE before.initial_pool_size

\* the later steps of the call leave the descriptor alone and the pool it
\* returns has the requested size
LaterStepsKeepDescriptor ==
    (fr.pc \in {"init", "derive"}) =>
        /\ Descriptor(pools'[fr.frames_ctx]) = Descriptor(pools[fr.frames_ctx])
        /\ (fr'.pc = "returned" /\ fr'.ret # NULL) =>
              /\ pools'[fr'.ret].width = fr.width
              /\ pools'[fr'.ret].height = fr.height

\* C12: hw_create_frames always stores the requested width and height in the
\* pool descriptor whatever it held, and stores the default sw_format (NV12)
\* and the default initial_pool_size (32) only where the capability query
\* left them unset; what the query set stays.
C12_SizeAndDefaults ==
    [][FillStepKeepsQueried /\ LaterStepsKeepDescriptor]_vars

C12_Witness ==
    /\ fr.pc = "returned"
    /\ fr.ret # NULL
    /\ pools[fr.frames_ctx].made_by = "params"
    /\ pools[fr.frames_ctx].sw_format = AV_PIX_FMT_P010
    /\ pools[fr.frames_ctx].initial_pool_size = 32
    /\ pools[fr.frames_ctx].width = 640
    /\ pools[fr.frames_ctx].height = 480

\* the formats offered to the callback
Offered == {cb.fmt[n] : n \in 1..Len(cb.fmt)}

\* the hardware configurations of the active codec that have the attached
\* device's type, a pixel format that is offered, and need a frame pool
UsableConfigs ==
    IF cctx.hw_device_ctx = NULL THEN {}
    ELSE {n \in 1..Len(cctx.codec.hw_configs) :
            /\ cctx.codec.hw_configs[n].device_type
                  = heap[cctx.hw_device_ctx].type
            /\ cctx.codec.hw_configs[n].pix_fmt \in Offered
            /\ cctx.codec.hw_configs[n].hw_frames_ctx}

\* C14: hw_get_format_callback returns one of the offered formats.  It
\* returns otherwise than by fallback, with the pool hw_create_frames built
\* attached to the codec context, only when a device context is attached and
\* a hardware configuration of the codec has the device's type, an offered
\* pixel format and needs a frame pool; the format returned is that one.  In
\* every other case, failed pool construction included, it returns the first
\* offered format; and a callback under way can always take its next step.
C14_CallbackResult ==
    /\ cb.pc = "returned" =>
          /\ cb.ret \in Offered
          /\ IF cctx.hw_frames_ctx # NULL
             THEN /\ cctx.hw_device_ctx # NULL
                  /\ \E n \in UsableConfigs :
                        cctx.codec.hw_configs[n].pix_fmt = cb.ret
                  /\ fr.pc = "returned"
                  /\ fr.ret = cctx.hw_frames_ctx
                  /\ pools[fr.ret].initialized
                  /\ pools[fr.ret].refcount >= 1
                  /\ pools[fr.ret].format = cb.ret
             ELSE cb.ret = cb.fmt[1]
          /\ UsableConfigs = {} =>
                /\ cctx.hw_frames_ctx = NULL
                /\ pools = <<>>
    /\ cb.pc = "scan" => ENABLED GetFormat_Scan
    /\ cb.pc = "frames" =>
          ENABLED (HwCreateFrames_Params \/ HwCreateFrames_Alloc
                   \/ HwCreateFrames_Fill \/ HwCreateFrames_Init
                   \/ HwCreateFrames_Derive \/ GetFormat_Resume)

C14_Witness ==
    /\ cb.pc = "returned"
    /\ cb.fmt = <<AV_PIX_FMT_D3D11VA_VLD, AV_PIX_FMT_D3D11, AV_PIX_FMT_NV12>>
    /\ cb.ret = AV_PIX_FMT_D3D11
    /\ fr.call = 2
    /\ cctx.hw_frames_ctx # NULL
    /\ pools[cctx.hw_frames_ctx].refcount = 1

\* the frame pools the library made during the current hw_create_frames call
PoolsOfCall == {q \in 1..Len(pools) : pools[q].call = fr.call}

\* the references to device context id that are held when no builder call is
\* under way: the session's, those of live derived contexts and those of live
\* frame pools
Holders(id) ==
    (IF pc = "returned" /\ result = id THEN 1 ELSE 0)
    + Cardinality({d \in 1..Len(heap) :
                      /\ heap[d].refcount > 0
                      /\ heap[d].free_child
                      /\ heap[d].user_opaque = id})
    + Cardinality({d \in 1..Len(heap) :
                      heap[d].refcount > 0 /\ heap[d].source_device = id})
    + Cardinality({q \in 1..Len(pools) :
                      pools[q].refcount > 0 /\ pools[q].device_ref = id})

\* C19: when hw_create_device returns no context, every device context the
\* library made during the call has lost its last reference and been
\* destroyed once; when hw_create_frames returns no pool, the call holds no
\* pool, every pool the library made during the call has lost its last
\* reference and been destroyed once, and every device context is referenced
\* only by its holders outside the call.
C19_FailedBuilderReleases ==
    /\ (pc = "returned" /\ result = NULL) =>
          \A id \in MadeInCall :
              heap[id].refcount = 0 /\ heap[id].zeroed = 1
    /\ (fr.pc = "returned" /\ fr.ret = NULL) =>
          /\ fr.hw_frames_ref = NULL
          /\ fr.derived_frame_ctx = NULL
          /\ \A q \in PoolsOfCall :
                pools[q].refcount = 0 /\ pools[q].zeroed = 1
          /\ \A id \in 1..Len(heap) : heap[id].refcount = Holders(id)

C19_Witness ==
    /\ fr.pc = "returned"
    /\ fr.ret = NULL
    /\ fr.child_ctx # fr.hw_device_ctx
    /\ fr.frames_ctx \in PoolsOfCall
    /\ pools[fr.frames_ctx].initialized
    /\ pools[fr.frames_ctx].refcount = 0
    /\ pools[fr.frames_ctx].zeroed = 1
    /\ heap[fr.child_ctx].refcount >= 1

\* the device context of the current hw_create_frames call is of the layered
\* backend and stores a child that is not DXVA2
LayeredOverChild ==
    /\ heap[fr.hw_device_ctx].type = AV_HWDEVICE_TYPE_QSV
    /\ heap[fr.hw_device_ctx].user_opaque # NULL
    /\ heap[heap[fr.hw_device_ctx].user_opaque].type # AV_HWDEVICE_TYPE_DXVA2

\* C20: hw_create_frames allocates the pool against the child context the
\* device context stores exactly when the device context is QSV, stores a
\* child, and the child is not DXVA2; the pool it then returns is derived on
\* the device context from that child pool with read and write mapping, and
\* the call's reference to the child pool is released.  Otherwise the pool is
\* allocated against the device context and returned as it is, and nothing
\* is derived.
C20_ChildAllocation ==
    fr.call > 0 =>
        /\ \A q \in PoolsOfCall :
              pools[q].made_by # "derive" =>
                  pools[q].device_ref =
                      IF LayeredOverChild
                      THEN heap[fr.hw_device_ctx].user_opaque
                      ELSE fr.hw_device_ctx
        /\ ~LayeredOverChild =>
              \A q \in PoolsOfCall : pools[q].made_by # "derive"
        /\ (fr.pc = "returned" /\ fr.ret # NULL) =>
              LET pool == pools[fr.ret]
              IN  IF LayeredOverChild
                  THEN /\ pool.made_by = "derive"
                       /\ pool.device_ref = fr.hw_device_ctx
                       /\ pool.source = fr.frames_ctx
                       /\ pool.source # fr.ret
                       /\ pools[pool.source].device_ref
                             = heap[fr.hw_device_ctx].user_opaque
                       /\ pool.flags = {AV_HWFRAME_MAP_READ, AV_HWFRAME_MAP_WRITE}
                       /\ pool.refcount = 1
                       /\ fr.hw_frames_ref = NULL
                       /\ pools[pool.source].refcount
                             = IF pool.source_frames = pool.source
                               THEN 1 ELSE 0
                  ELSE /\ fr.ret = fr.frames_ctx
                       /\ pool.made_by \in {"params", "alloc"}
                       /\ pool.device_ref = fr.hw_device_ctx
                       /\ pool.refcount = 1

C20_Witness ==
    /\ fr.pc = "returned"
    /\ fr.ret # NULL
    /\ LayeredOverChild
    /\ heap[heap[fr.hw_device_ctx].user_opaque].type = AV_HWDEVICE_TYPE_D3D11VA
    /\ pools[fr.ret].made_by = "derive"
    /\ pools[fr.ret].source_frames = fr.frames_ctx
    /\ pools[fr.frames_ctx].refcount = 1

\* the backend name of the last call of the codec selector
CallBackendName == av_hwdevice_get_type_name(last_call.hw_type)

\* the pixel format under which codec c advertises the backend of the last
\* hw_find_codec call: for an encoder with a list of pixel formats the
\* backend's native format when it is in the list (CUDA; VAAPI on a library
\* older than 56.51.100), else the format of its first hardware configuration
\* of that device type, else none
AdvertisedFormat(c) ==
    LET native ==
            IF last_call.hw_type = AV_HWDEVICE_TYPE_CUDA
            THEN AV_PIX_FMT_CUDA
            ELSE IF last_call.hw_type = AV_HWDEVICE_TYPE_VAAPI /\ old_libavutil
            THEN AV_PIX_FMT_VAAPI_VLD
            ELSE AV_PIX_FMT_NONE
        entries == {n \in 1..Len(c.hw_configs) :
                       c.hw_configs[n].device_type = last_call.hw_type}
    IN  IF /\ c.is_encoder /\ native # AV_PIX_FMT_NONE /\ ~c.pix_fmts.null
           /\ \E n \in 1..Len(c.pix_fmts.fmts) : c.pix_fmts.fmts[n] = native
        THEN native
        ELSE IF entries # {}
        THEN c.hw_configs[CHOOSE n \in entries : \A q \in entries : n <= q].pix_fmt
        ELSE AV_PIX_FMT_NONE

\* codec c is vetoed by the disabled-codec list of the last call
Vetoed(c) ==
    \/ HasToken(last_call.disabled_codecs, c.name)
    \/ HasToken(last_call.disabled_codecs, Dot \o CallBackendName)
    \/ HasToken(last_call.disabled_codecs, c.name \o Dot \o CallBackendName)
    \/ HasToken(last_call.disabled_codecs, S_hw)

\* the codecs that qualify for the backend of the last hw_find_codec call
Qualifying ==
    {k \in Eligible :
        AdvertisedFormat(codecs[k]) # AV_PIX_FMT_NONE /\ ~Vetoed(codecs[k])}

\* C21: for a backend other than none the codec hw_find_codec returns is of
\* the right category and id, not experimental, advertises the backend and
\* is not disabled; it is the first such codec in enumeration order, whatever
\* disabled or non-matching codecs come before it, the output pixel format is
\* the format under which it advertises the backend, and no codec is
\* returned only when none qualifies.
C21_HardwareFirstMatch ==
    (last_call.fn = "find" /\ last_call.hw_type # AV_HWDEVICE_TYPE_NONE) =>
        IF Qualifying = {}
        THEN ret = NULL
        ELSE /\ ret \in Qualifying
             /\ \A k \in Qualifying : ret <= k
             /\ hw_pix_fmt = AdvertisedFormat(codecs[ret])

C21_Witness ==
    /\ last_call.fn = "find"
    /\ last_call.hw_type = AV_HWDEVICE_TYPE_VAAPI
    /\ last_call.disabled_codecs = S_h264
    /\ Len(codecs) = 2
    /\ codecs[1].name = S_h264
    /\ 1 \in Eligible
    /\ AdvertisedFormat(codecs[1]) = AV_PIX_FMT_VAAPI_VLD
    /\ Vetoed(codecs[1])
    /\ ret = 2
    /\ hw_pix_fmt = AV_PIX_FMT_VAAPI_VLD

\* the eligible codecs that advertise the backend of the last call
Advertisers ==
    {k \in Eligible : AdvertisedFormat(codecs[k]) # AV_PIX_FMT_NONE}

\* the format the scan of codec c stores last: that of its last hardware
\* configuration of the backend's device type, or, without one, the native
\* format it advertises
LastStored(c) ==
    LET entries == {n \in 1..Len(c.hw_configs) :
                       c.hw_configs[n].device_type = last_call.hw_type}
    IN  IF entries # {}
        THEN c.hw_configs[CHOOSE n \in entries : \A q \in entries : n >= q].pix_fmt
        ELSE AdvertisedFormat(c)

\* C22: whenever hw_find_codec returns no codec, the caller's output
\* pixel-format slot holds the value it held before the call; a candidate
\* vetoed by the disable-check leaves no trace in it.
C22_SlotUntouchedOnFailure ==
    (last_call.fn = "find" /\ ret = NULL) =>
        hw_pix_fmt = last_call.slot_before

\* C22 as the code has it: when hw_find_codec returns no codec the slot holds
\* its old value only if the backend is none or no eligible codec advertises
\* the backend; otherwise every advertising codec was vetoed and the slot
\* holds the format stored for the last of them.
C22_SlotKeepsLastVetoed ==
    (last_call.fn = "find" /\ ret = NULL) =>
        IF last_call.hw_type = AV_HWDEVICE_TYPE_NONE \/ Advertisers = {}
        THEN hw_pix_fmt = last_call.slot_before
        ELSE /\ \A k \in Advertisers : Vetoed(codecs[k])
             /\ hw_pix_fmt =
                   LastStored(codecs[CHOOSE k \in Advertisers :
                                         \A q \in Advertisers : k >= q])

C22_Witness ==
    /\ last_call.fn = "find"
    /\ ret = NULL
    /\ last_call.hw_type = AV_HWDEVICE_TYPE_VAAPI
    /\ last_call.disabled_codecs = Dot \o S_vaapi
    /\ Advertisers # {}
    /\ last_call.slot_before = AV_PIX_FMT_NV12
    /\ hw_pix_fmt = AV_PIX_FMT_VAAPI_VLD

\* the callback has returned by one of its two fallback returns
FellBack ==
    /\ cb.pc = "returned"
    /\ fr.call = 0 \/ fr.ret = NULL

\* C23: whenever hw_get_format_callback ends by falling back to the first
\* offered format, sw_pix_fmt and hw_frames_ctx of the codec context are what
\* they were when the callback was entered, also after a frame pool
\* construction that failed.
C23_FallbackLeavesContext ==
    FellBack =>
        /\ cctx.sw_pix_fmt = cb.entry.sw_pix_fmt
        /\ cctx.hw_frames_ctx = cb.entry.hw_frames_ctx

\* C23 as the code has it: after a fallback the codec context is what it
\* was on entry only if no frame pool construction was attempted, which is
\* when no device context is attached or no hardware configuration is
\* usable; after a failed construction sw_pix_fmt holds the default NV12 and
\* hw_frames_ctx is null.
C23_FallbackAfterAttemptKeepsHint ==
    FellBack =>
        /\ cb.ret = cb.fmt[1]
        /\ fr.call = 0 <=> UsableConfigs = {}
        /\ IF fr.call = 0
           THEN /\ cctx.sw_pix_fmt = cb.entry.sw_pix_fmt
                /\ cctx.hw_frames_ctx = cb.entry.hw_frames_ctx
           ELSE /\ cctx.sw_pix_fmt = AV_PIX_FMT_NV12
                /\ cctx.hw_frames_ctx = NULL

C23_Witness ==
    /\ FellBack
    /\ fr.call = 1
    /\ cb.entry.sw_pix_fmt = AV_PIX_FMT_NONE
    /\ cctx.sw_pix_fmt = AV_PIX_FMT_NV12
    /\ cctx.hw_frames_ctx = NULL
    /\ cb.ret = AV_PIX_FMT_CUDA
    /\ pools # <<>>
    /\ \A q \in 1..Len(pools) : pools[q].refcount = 0

====
